---------------------------- MODULE Spec2Model ----------------------------
(***************************************************************************)
(* A model of @metis-w/api-client: the method resolver, the route cache    *)
(* and route builder behind DynamicClient, and APIClient's request         *)
(* pipeline (interceptors, retry, transport, response normalisation).      *)
(*                                                                         *)
(* JavaScript strings are sequences of one-character strings, so that      *)
(* toLowerCase, startsWith, endsWith and concatenation are computed as     *)
(* the code computes them.  undefined and null are the two one-element     *)
(* sequences Undefined and Null, which no string equals.                   *)
(***************************************************************************)
EXTENDS Integers, Sequences, FiniteSets, TLC

Undefined == <<"undefined">>
Null == <<"null">>

(***************************************************************************)
(* String primitives.                                                      *)
(***************************************************************************)
UpperChars == <<"A", "B", "C", "D", "E", "F", "G", "H", "I", "J", "K", "L", "M", "N", "O", "P", "Q", "R", "S", "T", "U", "V", "W", "X", "Y", "Z">>
LowerChars == <<"a", "b", "c", "d", "e", "f", "g", "h", "i", "j", "k", "l", "m", "n", "o", "p", "q", "r", "s", "t", "u", "v", "w", "x", "y", "z">>

OtherChars == <<"0", "1", "2", "3", "4", "5", "6", "7", "8", "9", "_", "-", "*", "/", " ", ".">>
Chars == {UpperChars[i] : i \in 1..26} \cup {LowerChars[i] : i \in 1..26}
             \cup {OtherChars[i] : i \in 1..Len(OtherChars)}

toLowerChar[c \in Chars] ==
    IF \E i \in 1..26 : UpperChars[i] = c
    THEN LowerChars[CHOOSE i \in 1..26 : UpperChars[i] = c]
    ELSE c

toUpperChar[c \in Chars] ==
    IF \E i \in 1..26 : LowerChars[i] = c
    THEN UpperChars[CHOOSE i \in 1..26 : LowerChars[i] = c]
    ELSE c

toLowerCase(s) == [i \in 1..Len(s) |-> toLowerChar[s[i]]]
toUpperCase(s) == [i \in 1..Len(s) |-> toUpperChar[s[i]]]

startsWith(s, p) == Len(p) <= Len(s) /\ SubSeq(s, 1, Len(p)) = p
endsWith(s, p) == Len(p) <= Len(s) /\ SubSeq(s, Len(s) - Len(p) + 1, Len(s)) = p

\* s.replace(/([a-z])([A-Z])/g, "$1-$2")
RECURSIVE InsertHyphens(_)
InsertHyphens(s) ==
    IF Len(s) <= 1 THEN s
    ELSE <<s[1]>>
            \o (IF (\E i \in 1..26 : LowerChars[i] = s[1]) /\ (\E i \in 1..26 : UpperChars[i] = s[2])
                THEN <<"-">> ELSE <<>>)
            \o InsertHyphens(Tail(s))

\* s.replace(/^-+/, "")
RECURSIVE StripLeadingHyphens(_)
StripLeadingHyphens(s) ==
    IF s # <<>> /\ s[1] = "-" THEN StripLeadingHyphens(Tail(s)) ELSE s

\* camelToKebab (src/unnamed/part_003)
camelToKebab(s) == StripLeadingHyphens(toLowerCase(InsertHyphens(s)))

\* a JavaScript value used as a condition: undefined, null and "" are falsy
Truthy(v) == v # Undefined /\ v # Null /\ v # <<>>

(***************************************************************************)
(* MethodResolver (src/src/utils/method-resolver.ts).                      *)
(***************************************************************************)
GET == <<"G", "E", "T">>
POST == <<"P", "O", "S", "T">>
PUT == <<"P", "U", "T">>
DELETE == <<"D", "E", "L", "E", "T", "E">>
PATCH == <<"P", "A", "T", "C", "H">>

DIRECT_METHODS == <<GET, POST, PUT, DELETE, PATCH>>

SEMANTIC_PATTERNS ==
    << [patterns |-> <<<<"g", "e", "t">>, <<"f", "e", "t", "c", "h">>, <<"l", "o", "a", "d">>, <<"f", "i", "n", "d">>, <<"r", "e", "t", "r", "i", "e", "v", "e">>, <<"r", "e", "a", "d">>, <<"s", "h", "o", "w">>, <<"v", "i", "e", "w">>>>,
        method |-> GET],
       [patterns |-> <<<<"c", "r", "e", "a", "t", "e">>, <<"a", "d", "d">>, <<"s", "a", "v", "e">>, <<"s", "t", "o", "r", "e">>, <<"i", "n", "s", "e", "r", "t">>, <<"n", "e", "w">>, <<"r", "e", "g", "i", "s", "t", "e", "r">>, <<"s", "u", "b", "m", "i", "t">>>>,
        method |-> POST],
       [patterns |-> <<<<"u", "p", "d", "a", "t", "e">>, <<"e", "d", "i", "t">>, <<"m", "o", "d", "i", "f", "y">>, <<"c", "h", "a", "n", "g", "e">>, <<"r", "e", "p", "l", "a", "c", "e">>, <<"s", "e", "t">>, <<"p", "u", "t">>>>,
        method |-> PUT],
       [patterns |-> <<<<"d", "e", "l", "e", "t", "e">>, <<"r", "e", "m", "o", "v", "e">>, <<"d", "e", "s", "t", "r", "o", "y">>, <<"c", "l", "e", "a", "r">>, <<"d", "r", "o", "p">>, <<"c", "a", "n", "c", "e", "l">>>>,
        method |-> DELETE],
       [patterns |-> <<<<"p", "a", "t", "c", "h">>, <<"p", "a", "r", "t", "i", "a", "l">>, <<"t", "o", "g", "g", "l", "e">>, <<"e", "n", "a", "b", "l", "e">>, <<"d", "i", "s", "a", "b", "l", "e">>, <<"a", "c", "t", "i", "v", "a", "t", "e">>, <<"d", "e", "a", "c", "t", "i", "v", "a", "t", "e">>>>,
        method |-> PATCH] >>

matchesPattern(actionName, pattern) ==
    IF endsWith(pattern, <<"*">>)
    THEN startsWith(actionName, SubSeq(pattern, 1, Len(pattern) - 1))
    ELSE IF startsWith(pattern, <<"*">>)
         THEN endsWith(actionName, SubSeq(pattern, 2, Len(pattern)))
         ELSE actionName = pattern

\* DIRECT_METHODS.some(method => method.toLowerCase() === actionLower)
IsDirectMethod(actionLower) ==
    \E i \in 1..Len(DIRECT_METHODS) : toLowerCase(DIRECT_METHODS[i]) = actionLower

\* the entries of options.methodRules that match, by their position in Object.entries
MatchingRules(actionLower, rules) ==
    IF rules.defined
    THEN {i \in 1..Len(rules.entries) :
             matchesPattern(actionLower, toLowerCase(rules.entries[i].pattern))}
    ELSE {}

\* the SEMANTIC_PATTERNS groups one of whose patterns the action starts with
MatchingSemantic(actionLower) ==
    {g \in 1..Len(SEMANTIC_PATTERNS) :
        \E p \in 1..Len(SEMANTIC_PATTERNS[g].patterns) :
            startsWith(actionLower, SEMANTIC_PATTERNS[g].patterns[p])}

Min(S) == CHOOSE x \in S : \A y \in S : x <= y

\* mutant: the direct-method check runs before the explicit-method check
determineMethod_directBeforeExplicit(actionName, options, explicitMethod) ==
    LET actionLower == toLowerCase(actionName)
        byRule == MatchingRules(actionLower, options.methodRules)
        bySemantic == MatchingSemantic(actionLower)
    IN  IF IsDirectMethod(actionLower) THEN toUpperCase(actionLower)
        ELSE IF Truthy(explicitMethod) THEN explicitMethod
        ELSE IF byRule # {} THEN options.methodRules.entries[Min(byRule)].method
        ELSE IF bySemantic # {} THEN SEMANTIC_PATTERNS[Min(bySemantic)].method
        ELSE IF Truthy(options.defaultMethod) THEN options.defaultMethod
        ELSE POST

\* mutant: the custom rules are consulted before the direct-method check
determineMethod_rulesBeforeDirect(actionName, options, explicitMethod) ==
    LET actionLower == toLowerCase(actionName)
        byRule == MatchingRules(actionLower, options.methodRules)
        bySemantic == MatchingSemantic(actionLower)
    IN  IF Truthy(explicitMethod) THEN explicitMethod
        ELSE IF byRule # {} THEN options.methodRules.entries[Min(byRule)].method
        ELSE IF IsDirectMethod(actionLower) THEN toUpperCase(actionLower)
        ELSE IF bySemantic # {} THEN SEMANTIC_PATTERNS[Min(bySemantic)].method
        ELSE IF Truthy(options.defaultMethod) THEN options.defaultMethod
        ELSE POST

\* mutant: semantic analysis runs before the custom rules
determineMethod_semanticBeforeRules(actionName, options, explicitMethod) ==
    LET actionLower == toLowerCase(actionName)
        byRule == MatchingRules(actionLower, options.methodRules)
        bySemantic == MatchingSemantic(actionLower)
    IN  IF Truthy(explicitMethod) THEN explicitMethod
        ELSE IF IsDirectMethod(actionLower) THEN toUpperCase(actionLower)
        ELSE IF bySemantic # {} THEN SEMANTIC_PATTERNS[Min(bySemantic)].method
        ELSE IF byRule # {} THEN options.methodRules.entries[Min(byRule)].method
        ELSE IF Truthy(options.defaultMethod) THEN options.defaultMethod
        ELSE POST

determineMethod(actionName, options, explicitMethod) ==
    LET actionLower == toLowerCase(actionName)
        byRule == MatchingRules(actionLower, options.methodRules)
        bySemantic == MatchingSemantic(actionLower)
    IN  IF Truthy(explicitMethod) THEN explicitMethod
        ELSE IF IsDirectMethod(actionLower) THEN toUpperCase(actionLower)
        ELSE IF byRule # {} THEN options.methodRules.entries[Min(byRule)].method
        ELSE IF bySemantic # {} THEN SEMANTIC_PATTERNS[Min(bySemantic)].method
        ELSE IF Truthy(options.defaultMethod) THEN options.defaultMethod
        ELSE POST

(***************************************************************************)
(* Inputs of the resolver checks: action names, methodRules mappings (in   *)
(* Object.entries order), default methods and explicit methods.            *)
(***************************************************************************)
HTTPMethods == {GET, POST, PUT, DELETE, PATCH}

ActionNames ==
    { <<"g", "e", "t">>, <<"G", "E", "T">>, <<"G", "e", "t">>, <<"p", "o", "s", "t">>, <<"p", "U", "t">>, <<"D", "e", "l", "e", "t", "e">>, <<"P", "A", "T", "C", "H">>,
      <<"g", "e", "t", "U", "s", "e", "r">>, <<"g", "e", "t", "P", "r", "o", "f", "i", "l", "e">>, <<"c", "r", "e", "a", "t", "e", "U", "s", "e", "r">>, <<"u", "p", "d", "a", "t", "e">>, <<"u", "p", "d", "a", "t", "e", "U", "s", "e", "r">>, <<"r", "e", "m", "o", "v", "e", "I", "t", "e", "m">>,
      <<"t", "o", "g", "g", "l", "e", "F", "l", "a", "g">>, <<"b", "a", "n">>, <<"v", "e", "r", "i", "f", "y", "T", "o", "k", "e", "n">>, <<"l", "o", "g", "i", "n">>, <<"l", "o", "g", "o", "u", "t">>, <<>>, <<" ">> }

Rule(p, m) == [pattern |-> p, method |-> m]
NoRules == [defined |-> FALSE, entries |-> <<>>]
Rules(es) == [defined |-> TRUE, entries |-> es]

RuleSets ==
    { NoRules,
      Rules(<<>>),
      Rules(<<Rule(<<"g", "e", "t">>, POST), Rule(<<"b", "a", "n">>, DELETE)>>),
      Rules(<<Rule(<<"G", "E", "T">>, DELETE), Rule(<<"p", "a", "t", "c", "h">>, PUT)>>),
      Rules(<<Rule(<<"D", "E", "L", "E", "T", "E">>, GET), Rule(<<"p", "*">>, POST), Rule(<<"*", "t">>, PATCH)>>),
      Rules(<<Rule(<<"v", "e", "r", "i", "f", "y", "*">>, POST), Rule(<<"v", "e", "r", "i", "f", "y", "-", "t", "o", "k", "e", "n">>, GET)>>),
      Rules(<<Rule(<<"l", "o", "g", "*">>, GET), Rule(<<"l", "o", "g", "i", "n">>, POST)>>),
      Rules(<<Rule(<<"*", "U", "s", "e", "r">>, PATCH), Rule(<<"g", "e", "t", "*">>, DELETE)>>),
      Rules(<<Rule(<<"u", "p", "d", "a", "t", "e">>, PATCH)>>),
      Rules(<<Rule(<<"u", "p", "*">>, POST)>>),
      Rules(<<Rule(<<"*">>, PUT)>>),
      Rules(<<Rule(<<>>, PUT)>>) }

DefaultMethods == {Undefined, GET, PUT}
ExplicitMethods == {Undefined} \cup HTTPMethods \cup {<<"d", "e", "l", "e", "t", "e">>}

(***************************************************************************)
(* Optional values.  An optional string is the string or Undefined; an     *)
(* optional number or boolean is a record with a def flag; an optional     *)
(* object (payload, params, headers) is Absent or Obj(entries), entries a   *)
(* set of <<key, value>> pairs with distinct keys.                         *)
(***************************************************************************)
NoNum == [def |-> FALSE, v |-> 0]
NoBool == [def |-> FALSE, v |-> FALSE]
Some(x) == [def |-> TRUE, v |-> x]
Absent == [present |-> FALSE, entries |-> {}]
Obj(es) == [present |-> TRUE, entries |-> es]

\* a || d on an optional number: undefined and 0 are falsy
OrNum(o, d) == IF o.def /\ o.v # 0 THEN o ELSE Some(d)
\* a || d on an optional boolean
OrBool(o, d) == IF o.def /\ o.v THEN o ELSE Some(d)
\* a ?? d
Coalesce(o, d) == IF o.def THEN o ELSE d
\* a || d on an optional string
OrStr(a, d) == IF Truthy(a) THEN a ELSE d
\* a || d on an optional object (every object, {} included, is truthy)
OrObj(o, d) == IF o.present THEN o ELSE d
CoalesceObj(o, d) == IF o.present THEN o ELSE d

HasKey(o, k) == o.present /\ \E e \in o.entries : e[1] = k
ValueOf(o, k) == (CHOOSE e \in o.entries : e[1] = k)[2]
\* Object.fromEntries(Object.entries(o).filter(([key]) => key !== k))
WithoutKey(o, k) == Obj({e \in o.entries : e[1] # k})
\* Object.keys(o).length
KeyCount(o) == Cardinality(o.entries)

(***************************************************************************)
(* APIClient's configuration (src/src/core/api-client.ts) and              *)
(* RequestBuilder.mergeConfig (src/unnamed/part_006).                      *)
(***************************************************************************)
DEFAULT_TIMEOUT == 5000
DEFAULT_RETRIES == 3
DEFAULT_RETRY_DELAY == 1000

\* an APIConfig as the caller writes it: every field but baseUrl optional
APIConfigOf(retries, retryDelay, defaultMethod, methodRules) ==
    [timeout |-> NoNum, headers |-> Absent, withCredentials |-> NoBool,
     retries |-> retries, retryDelay |-> retryDelay, useKebabCase |-> NoBool,
     defaultMethod |-> defaultMethod, methodRules |-> methodRules]

\* APIClient.constructor: this.config
APIClientConfig(config) ==
    [live |-> TRUE,
     timeout |-> OrNum(config.timeout, DEFAULT_TIMEOUT),
     headers |-> OrObj(config.headers, Obj({})),
     withCredentials |-> Coalesce(config.withCredentials, Some(FALSE)),
     retries |-> OrNum(config.retries, DEFAULT_RETRIES),
     retryDelay |-> OrNum(config.retryDelay, DEFAULT_RETRY_DELAY),
     useKebabCase |-> OrBool(config.useKebabCase, FALSE),
     defaultMethod |-> OrStr(config.defaultMethod, POST),
     methodRules |-> IF config.methodRules.defined THEN config.methodRules ELSE Rules(<<>>)]

\* APIClient.destroy: this.config = null
DestroyedConfig == [APIClientConfig(APIConfigOf(NoNum, NoNum, Undefined, NoRules)) EXCEPT !.live = FALSE]

\* a RequestConfig with only the fields a caller of request() sets
RequestConfigOf(method, url, data, params) ==
    [method |-> method, url |-> url, data |-> data, params |-> params,
     signal |-> "undefined",
     timeout |-> NoNum, headers |-> Absent, withCredentials |-> NoBool,
     retries |-> NoNum, retryDelay |-> NoNum, useKebabCase |-> NoBool,
     defaultMethod |-> Undefined, methodRules |-> NoRules]

\* mergeConfig reads defaultConfig.<field> only where config.<field> is nullish;
\* with defaultConfig null (a destroyed client) that read throws a TypeError
mergeConfigThrows(config, defaultConfig) ==
    /\ ~defaultConfig.live
    /\ \/ ~config.timeout.def
       \/ ~config.headers.present
       \/ ~config.withCredentials.def
       \/ ~config.retries.def
       \/ ~config.retryDelay.def
       \/ ~config.useKebabCase.def
       \/ config.defaultMethod \in {Undefined, Null}
       \/ ~config.methodRules.defined

mergeConfig(config, defaultConfig) ==
    [method |-> OrStr(config.method, GET),
     url |-> OrStr(config.url, <<>>),
     data |-> OrObj(config.data, Absent),
     params |-> OrObj(config.params, Obj({})),
     signal |-> IF config.signal = "caller" THEN "caller" ELSE "null",
     timeout |-> Coalesce(config.timeout, defaultConfig.timeout),
     headers |-> CoalesceObj(config.headers, defaultConfig.headers),
     withCredentials |-> Coalesce(config.withCredentials, defaultConfig.withCredentials),
     retries |-> Coalesce(config.retries, defaultConfig.retries),
     retryDelay |-> Coalesce(config.retryDelay, defaultConfig.retryDelay),
     useKebabCase |-> Coalesce(config.useKebabCase, defaultConfig.useKebabCase),
     defaultMethod |-> IF config.defaultMethod \in {Undefined, Null}
                       THEN defaultConfig.defaultMethod ELSE config.defaultMethod,
     methodRules |-> IF config.methodRules.defined
                     THEN config.methodRules ELSE defaultConfig.methodRules]

(***************************************************************************)
(* RouteValidator (src/unnamed/part_003) and CacheManager                  *)
(* (src/unnamed/part_006).                                                 *)
(***************************************************************************)
RESERVED_PROPS == {<<"t", "h", "e", "n">>, <<"c", "a", "t", "c", "h">>, <<"f", "i", "n", "a", "l", "l", "y">>}

isValidAction_reservedListOnly(action) == action \notin RESERVED_PROPS

isValidAction(action) ==
    /\ action \notin RESERVED_PROPS
    /\ ~startsWith(action, <<"_", "_">>)

\* `${id}`: an id is a number or a string; s is its string form
NumberId(s) == [t |-> "number", s |-> s]
StringId(s) == [t |-> "string", s |-> s]
NoId == [t |-> "undefined", s |-> <<>>]
String(id) == id.s

generateActionCacheKey(controller) == <<"a", "c", "t", "i", "o", "n", "_">> \o controller

generateParameterizedCacheKey(controller, id) ==
    <<"p", "a", "r", "a", "m", "_">> \o controller \o <<"_">> \o String(id)

\* names that are members of a DynamicClient instance (prop in target): its own
\* fields, the members of DynamicClient and APIClient, and Object.prototype's
ClientMembers ==
    { <<"c", "a", "c", "h", "e", "M", "a", "n", "a", "g", "e", "r">>, <<"c", "o", "n", "f", "i", "g">>, <<"i", "n", "t", "e", "r", "c", "e", "p", "t", "o", "r", "M", "a", "n", "a", "g", "e", "r">>,
      <<"c", "a", "c", "h", "e">>, <<"d", "e", "s", "t", "r", "o", "y">>, <<"i", "n", "t", "e", "r", "c", "e", "p", "t", "o", "r", "s">>, <<"a", "p", "i", "C", "o", "n", "f", "i", "g">>, <<"r", "e", "q", "u", "e", "s", "t">>, <<"e", "x", "e", "c", "u", "t", "e", "R", "e", "q", "u", "e", "s", "t">>,
      <<"g", "e", "t">>, <<"p", "o", "s", "t">>, <<"p", "u", "t">>, <<"d", "e", "l", "e", "t", "e">>, <<"p", "a", "t", "c", "h">>,
      <<"c", "o", "n", "s", "t", "r", "u", "c", "t", "o", "r">>, <<"t", "o", "S", "t", "r", "i", "n", "g">>, <<"v", "a", "l", "u", "e", "O", "f">>, <<"h", "a", "s", "O", "w", "n", "P", "r", "o", "p", "e", "r", "t", "y">>, <<"_", "_", "p", "r", "o", "t", "o", "_", "_">> }

(***************************************************************************)
(* The inputs of the route engine: the names read on the client and on     *)
(* handles, the ids a controller is called with, the payloads and query    *)
(* parameters a handler is invoked with, and the client's method options.  *)
(***************************************************************************)
ClientProps == { <<"x">>, <<"x", "_", "1">>, <<"t", "h", "e", "n">>, <<"g", "e", "t">>, <<"c", "o", "n", "f", "i", "g">> }
PropNames == { <<"b", "a", "n">>, <<"g", "e", "t">>, <<"t", "h", "e", "n">>, <<"_", "_", "v">> }
Ids == { NumberId(<<"1">>), StringId(<<"1">>), StringId(<<"1", "_", "1">>) }

Payloads ==
    { Absent,
      Obj({}),
      Obj({<<<<"n", "a", "m", "e">>, <<"X">>>>}),
      Obj({<<<<"m", "e", "t", "h", "o", "d">>, DELETE>>}),
      Obj({<<<<"n", "a", "m", "e">>, <<"X">>>>, <<<<"m", "e", "t", "h", "o", "d">>, GET>>}) }

QueryParams == { Absent, Obj({<<<<"p", "a", "g", "e">>, <<"1">>>>}) }

\* the (payload, queryParams) pairs a handler is invoked with
Invocations ==
    { <<Absent, Absent>>,
      <<Obj({}), Absent>>,
      <<Obj({<<<<"n", "a", "m", "e">>, <<"X">>>>}), Obj({<<<<"p", "a", "g", "e">>, <<"1">>>>})>>,
      <<Obj({<<<<"m", "e", "t", "h", "o", "d">>, DELETE>>}), Absent>>,
      <<Obj({<<<<"n", "a", "m", "e">>, <<"X">>>>, <<<<"m", "e", "t", "h", "o", "d">>, GET>>}), Absent>> }

RouteRuleSets == { NoRules, Rules(<<Rule(<<"u", "p", "d", "a", "t", "e">>, PATCH), Rule(<<"b", "*">>, DELETE)>>) }
RouteDefaultMethods == { Undefined, PUT }

\* a client with useKebabCase whose rules are written in kebab-case
KebabRules == Rules(<<Rule(<<"v", "e", "r", "i", "f", "y", "*">>, POST), Rule(<<"v", "e", "r", "i", "f", "y", "-", "t", "o", "k", "e", "n">>, GET)>>)
KebabConfig ==
    [APIConfigOf(NoNum, NoNum, Undefined, KebabRules) EXCEPT !.useKebabCase = Some(TRUE)]

\* the names read on the handles of a chain that ends in an invocation
InvokeNames == PropNames \cup { <<"v", "e", "r", "i", "f", "y", "T", "o", "k", "e", "n">>, <<"c", "a", "t", "c", "h">>, <<"f", "i", "n", "a", "l", "l", "y">> }

\* determineMethod on the arguments the route handlers can give it, computed once
RouteActionNames == {n \in InvokeNames : isValidAction(n)} \cup {<<"u", "p", "d", "a", "t", "e">>, <<"g", "e", "t">>}
RouteMethodOptions ==
    [defaultMethod : RouteDefaultMethods, methodRules : RouteRuleSets \cup {KebabRules}]
RouteExplicitMethods == {Undefined, DELETE, GET}
RouteMethodTable ==
    [a \in RouteActionNames, o \in RouteMethodOptions, e \in RouteExplicitMethods |->
        determineMethod(a, o, e)]

MaxHandles == 3
MaxClears == 1

VARIABLES
    rAction,      \* determineMethod's actionName
    rOptions,     \* determineMethod's options
    rExplicit,    \* determineMethod's explicitMethod
    rResult       \* what determineMethod returned; Undefined before the call

VARIABLES
    apiConfig,    \* the APIConfig the client was constructed with
    config,       \* APIClient's this.config (live = FALSE once destroyed)
    routeCache,   \* CacheManager.routeCache: controller -> handle
    actionCache,  \* CacheManager.actionCache: cache key -> handle
    parameterizedCache, \* CacheManager.parameterizedCache: cache key -> handle
    handles,      \* every route object created so far (the caller may hold any)
    epoch,        \* how many times the caches were cleared
    last          \* the last operation of the caller and what it returned

VARIABLES
    chain         \* the expression the caller is evaluating: the names read and the
                  \* ids called with since it last started from the client

VARIABLES
    requestInterceptors,  \* InterceptorManager.requestInterceptors, in insertion order
    responseInterceptors, \* InterceptorManager.responseInterceptors, in insertion order
    requested,    \* the RequestConfig request() was called with
    pc,           \* where request() stands
    cursor,       \* the position of the running for-of loop in its Set
    finalConfig,  \* request()'s finalConfig
    attempt,      \* request()'s attempt
    maxAttempts,  \* request()'s maxAttempts
    finalResponse, \* request()'s finalResponse
    returned,     \* the response request() resolved with
    thrown,       \* the error request() rejected with
    outcomes,     \* what each transport call ended in, in order
    delays,       \* the backoff delays taken, in order
    registered,   \* the interceptors held by the manager when request() was called
    invoked,      \* the interceptors request() has called, in order
    requestIds,   \* the ids of the entries of requestInterceptors, position by position
    responseIds,  \* the ids of the entries of responseInterceptors, position by position
    removal,      \* the last remove*Interceptor(id) call and what it returned
    timeouts      \* the timeout timers executeRequest has set and not cleared

resolverVars == <<rAction, rOptions, rExplicit, rResult>>
pipelineVars == <<requestInterceptors, responseInterceptors, requested, pc, cursor, finalConfig, attempt,
                  maxAttempts, finalResponse, returned, thrown, outcomes, delays,
                  registered, invoked, requestIds, responseIds, removal, timeouts>>
registryVars == <<requestIds, responseIds, removal>>
routeVars == <<apiConfig, config, routeCache, actionCache, parameterizedCache, handles, epoch, last>>
callerVars == <<chain>>
vars == <<resolverVars, routeVars, callerVars, pipelineVars>>

(***************************************************************************)
(* The method resolver, called once on arguments drawn by InitResolver.    *)
(***************************************************************************)
ResolverIdle ==
    /\ rAction = <<>>
    /\ rOptions = [defaultMethod |-> Undefined, methodRules |-> NoRules]
    /\ rExplicit = Undefined
    /\ rResult = Undefined

Resolve ==
    /\ rResult = Undefined
    /\ rResult' = determineMethod(rAction, rOptions, rExplicit)
    /\ UNCHANGED <<rAction, rOptions, rExplicit>>
    /\ UNCHANGED <<routeVars, callerVars, pipelineVars>>

(***************************************************************************)
(* RouteBuilder (src/unnamed/part_005) and DynamicClient                   *)
(* (src/unnamed/part_009).  A handle is a record: its kind, what its       *)
(* closure captured (controller, endpoint, action), and its identity       *)
(* (the cache epoch it was created in and a serial number among the        *)
(* handles with the same captures).                                        *)
(*   route       createRoute's cachedProxy                                 *)
(*   actionRoute createActionRoute's actionRoute                           *)
(*   action      createActionHandler's proxy of mainHandler                *)
(*   param       createParameterizedRoute's paramRoute                     *)
(*   paramAction the proxy of paramHandler returned by paramRoute's get    *)
(*   sub         createSubActionHandler's function                         *)
(***************************************************************************)
NewHandle(kind, controller, endpoint, action) ==
    [kind |-> kind, controller |-> controller, endpoint |-> endpoint, action |-> action,
     epoch |-> epoch,
     serial |-> 1 + Cardinality({h \in handles :
                     /\ h.kind = kind /\ h.controller = controller
                     /\ h.endpoint = endpoint /\ h.action = action /\ h.epoch = epoch})]

getStats ==
    [routes |-> Cardinality(DOMAIN routeCache),
     actions |-> Cardinality(DOMAIN actionCache),
     parameterized |-> Cardinality(DOMAIN parameterizedCache)]

\* DynamicClient.constructor: methodOptions
methodOptions == [defaultMethod |-> apiConfig.defaultMethod, methodRules |-> apiConfig.methodRules]

Op(op, on, name, id, result) ==
    [op |-> op, on |-> on, name |-> name, id |-> id, result |-> result,
     member |-> FALSE, payload |-> Absent, query |-> Absent,
     req |-> {}, threw |-> FALSE, before |-> getStats,
     registeredBefore |-> Len(requestInterceptors) + Len(responseInterceptors)]

CanCreate == Cardinality(handles) < MaxHandles

\* client[prop] with every name handed to RouteBuilder.createRoute
ClientGet_delegateAll(prop) ==
    IF prop \in DOMAIN routeCache
    THEN /\ last' = Op("clientGet", {}, prop, NoId, {routeCache[prop]})
         /\ UNCHANGED <<apiConfig, config, routeCache, actionCache, parameterizedCache, handles, epoch>>
    ELSE LET cachedProxy == NewHandle("route", prop, <<>>, <<>>)
         IN  /\ CanCreate
             /\ routeCache' = (prop :> cachedProxy) @@ routeCache
             /\ handles' = handles \cup {cachedProxy}
             /\ last' = Op("clientGet", {}, prop, NoId, {cachedProxy})
             /\ UNCHANGED <<apiConfig, config, actionCache, parameterizedCache, epoch>>

\* client[prop] with createRoute building a controller handle at every access
ClientGet_uncached(prop) ==
    IF prop \in ClientMembers
    THEN /\ last' = [Op("clientGet", {}, prop, NoId, {}) EXCEPT !.member = TRUE]
         /\ UNCHANGED <<apiConfig, config, routeCache, actionCache, parameterizedCache, handles, epoch>>
    ELSE LET cachedProxy == NewHandle("route", prop, <<>>, <<>>)
         IN  /\ CanCreate
             /\ routeCache' = (prop :> cachedProxy) @@ routeCache
             /\ handles' = handles \cup {cachedProxy}
             /\ last' = Op("clientGet", {}, prop, NoId, {cachedProxy})
             /\ UNCHANGED <<apiConfig, config, actionCache, parameterizedCache, epoch>>

\* client[prop]: DynamicClient's proxy get, and RouteBuilder.createRoute
ClientGet(prop) ==
    IF prop \in ClientMembers
    THEN /\ last' = [Op("clientGet", {}, prop, NoId, {}) EXCEPT !.member = TRUE]
         /\ UNCHANGED <<apiConfig, config, routeCache, actionCache, parameterizedCache, handles, epoch>>
    ELSE IF prop \in DOMAIN routeCache
    THEN /\ last' = Op("clientGet", {}, prop, NoId, {routeCache[prop]})
         /\ UNCHANGED <<apiConfig, config, routeCache, actionCache, parameterizedCache, handles, epoch>>
    ELSE LET cachedProxy == NewHandle("route", prop, <<>>, <<>>)
         IN  /\ CanCreate
             /\ routeCache' = (prop :> cachedProxy) @@ routeCache
             /\ handles' = handles \cup {cachedProxy}
             /\ last' = Op("clientGet", {}, prop, NoId, {cachedProxy})
             /\ UNCHANGED <<apiConfig, config, actionCache, parameterizedCache, epoch>>

\* RouteBuilder.createActionRoute, reached by routeFunction() with no id
createActionRoute(h) ==
    LET cacheKey == generateActionCacheKey(h.controller)
        actionRoute == NewHandle("actionRoute", h.controller, <<>>, <<>>)
    IN  IF cacheKey \in DOMAIN actionCache
        THEN /\ last' = Op("call", {h}, <<>>, NoId, {actionCache[cacheKey]})
             /\ UNCHANGED <<apiConfig, config, routeCache, actionCache, parameterizedCache, handles, epoch>>
        ELSE /\ CanCreate
             /\ actionCache' = (cacheKey :> actionRoute) @@ actionCache
             /\ handles' = handles \cup {actionRoute}
             /\ last' = Op("call", {h}, <<>>, NoId, {actionRoute})
             /\ UNCHANGED <<apiConfig, config, routeCache, parameterizedCache, epoch>>

\* RouteBuilder.createParameterizedRoute, reached by routeFunction(id)
createParameterizedRoute(h, id) ==
    LET cacheKey == generateParameterizedCacheKey(h.controller, id)
        baseEndpoint == <<"/">> \o h.controller \o <<"/">> \o String(id)
        paramRoute == NewHandle("param", h.controller, baseEndpoint, <<>>)
    IN  IF cacheKey \in DOMAIN parameterizedCache
        THEN /\ last' = Op("call", {h}, <<>>, id, {parameterizedCache[cacheKey]})
             /\ UNCHANGED <<apiConfig, config, routeCache, actionCache, parameterizedCache, handles, epoch>>
        ELSE /\ CanCreate
             /\ parameterizedCache' = (cacheKey :> paramRoute) @@ parameterizedCache
             /\ handles' = handles \cup {paramRoute}
             /\ last' = Op("call", {h}, <<>>, id, {paramRoute})
             /\ UNCHANGED <<apiConfig, config, routeCache, actionCache, epoch>>

\* routeFunction: a controller handle called with an id, or with none
CallRoute(h, id) ==
    /\ h \in handles
    /\ h.kind = "route"
    /\ IF id # NoId THEN createParameterizedRoute(h, id) ELSE createActionRoute(h)

\* what reading property name on handle h creates: the proxies' get traps
PropertyOf(h, name) ==
    IF h.kind = "sub" \/ ~isValidAction(name)
    THEN {}
    ELSE IF h.kind \in {"route", "actionRoute"}
    THEN {NewHandle("action", h.controller, <<"/">> \o h.controller \o <<"/">> \o name, name)}
    ELSE IF h.kind = "param"
    THEN {NewHandle("paramAction", h.controller, h.endpoint \o <<"/">> \o name, name)}
    ELSE {NewHandle("sub", h.controller, h.endpoint \o <<"/">> \o name, name)}

\* handle[name] with the created handler invoked as soon as it is read
HandleGet_eager(h, name) ==
    /\ h \in handles
    /\ LET created == PropertyOf(h, name)
       IN  /\ created # {} => CanCreate
           /\ handles' = handles \cup created
           /\ last' = [Op("get", {h}, name, NoId, created)
                         EXCEPT !.req = {mergeConfig(RequestConfigOf(POST, g.endpoint, Absent, Absent),
                                                     config) : g \in created}]
    /\ UNCHANGED <<apiConfig, config, routeCache, actionCache, parameterizedCache, epoch>>

\* handle[name]
HandleGet(h, name) ==
    /\ h \in handles
    /\ LET created == PropertyOf(h, name)
       IN  /\ created # {} => CanCreate
           /\ handles' = handles \cup created
           /\ last' = Op("get", {h}, name, NoId, created)
    /\ UNCHANGED <<apiConfig, config, routeCache, actionCache, parameterizedCache, epoch>>

\* endpoint.split("/").pop()
LastSegment(endpoint) ==
    LET slashes == {i \in 1..Len(endpoint) : endpoint[i] = "/"}
        from == IF slashes = {} THEN 1 ELSE (CHOOSE i \in slashes : \A k \in slashes : k <= i) + 1
    IN  SubSeq(endpoint, from, Len(endpoint))

\* the action name a handler resolves its method with
ActionNameOf(h, payload) ==
    IF h.kind = "param"
    THEN (IF payload.present /\ KeyCount(payload) > 0 THEN <<"u", "p", "d", "a", "t", "e">> ELSE <<"g", "e", "t">>)
    ELSE IF h.kind = "paramAction"
    THEN OrStr(OrStr(h.action, LastSegment(h.endpoint)), <<>>)
    ELSE h.action

explicitMethodOf_ignored(payload) == Undefined

explicitMethodOf(payload) ==
    IF HasKey(payload, <<"m", "e", "t", "h", "o", "d">>) THEN ValueOf(payload, <<"m", "e", "t", "h", "o", "d">>) ELSE Undefined

cleanPayloadOf_keepMethod(payload) == payload

cleanPayloadOf(payload) ==
    IF HasKey(payload, <<"m", "e", "t", "h", "o", "d">>) THEN WithoutKey(payload, <<"m", "e", "t", "h", "o", "d">>) ELSE payload

\* DynamicClient's universalRequest: the config it hands to this.request
universalRequest(endpoint, payload, method, params) ==
    RequestConfigOf(OrStr(OrStr(method, config.defaultMethod), POST), endpoint, payload, params)

\* a handler called with (payload, queryParams): mainHandler, paramFunction,
\* createEndpointHandler's and createSubActionHandler's functions, up to the
\* first mergeConfig of APIClient.request
Invoke(h, payload, queryParams) ==
    /\ h \in handles
    /\ h.kind \in {"action", "param", "paramAction", "sub"}
    /\ LET httpMethod == RouteMethodTable[ActionNameOf(h, payload), methodOptions,
                                            explicitMethodOf(payload)]
           request == universalRequest(h.endpoint, cleanPayloadOf(payload), httpMethod, queryParams)
           op == [Op("invoke", {h}, <<>>, NoId, {}) EXCEPT !.payload = payload, !.query = queryParams]
       IN  last' = IF mergeConfigThrows(request, config)
                   THEN [op EXCEPT !.threw = TRUE]
                   ELSE [op EXCEPT !.req = {mergeConfig(request, config)}]
    /\ UNCHANGED <<apiConfig, config, routeCache, actionCache, parameterizedCache, handles, epoch>>

\* CacheManager.clearProxyCache
clearedCache == <<>>

ClearProxyCache_keepRoutes ==
    /\ epoch < MaxClears
    /\ actionCache' = clearedCache
    /\ parameterizedCache' = clearedCache
    /\ epoch' = epoch + 1
    /\ last' = Op("clear", {}, <<>>, NoId, {})
    /\ UNCHANGED <<apiConfig, config, routeCache, handles>>

ClearProxyCache ==
    /\ epoch < MaxClears
    /\ routeCache' = clearedCache
    /\ actionCache' = clearedCache
    /\ parameterizedCache' = clearedCache
    /\ epoch' = epoch + 1
    /\ last' = Op("clear", {}, <<>>, NoId, {})
    /\ UNCHANGED <<apiConfig, config, handles>>

\* destroy without APIClient.destroy's clearAllInterceptors()
Destroy_keepInterceptors ==
    /\ epoch < MaxClears
    /\ routeCache' = clearedCache
    /\ actionCache' = clearedCache
    /\ parameterizedCache' = clearedCache
    /\ epoch' = epoch + 1
    /\ config' = DestroyedConfig
    /\ last' = Op("destroy", {}, <<>>, NoId, {})
    /\ UNCHANGED <<apiConfig, handles, pipelineVars>>

\* DynamicClient.destroy: clearProxyCache(), then APIClient.destroy, which
\* sets this.config = null and calls interceptorManager.clearAllInterceptors()
Destroy ==
    /\ epoch < MaxClears
    /\ routeCache' = clearedCache
    /\ actionCache' = clearedCache
    /\ parameterizedCache' = clearedCache
    /\ epoch' = epoch + 1
    /\ config' = DestroyedConfig
    /\ last' = Op("destroy", {}, <<>>, NoId, {})
    /\ requestInterceptors' = <<>>
    /\ requestIds' = <<>>
    /\ responseInterceptors' = <<>>
    /\ responseIds' = <<>>
    /\ cursor' = IF pc \in {"requestInterceptors", "responseInterceptors"} THEN 1 ELSE cursor
    /\ UNCHANGED <<apiConfig, handles, requested, pc, finalConfig, attempt, maxAttempts,
                   finalResponse, returned, thrown, outcomes, delays, registered, invoked,
                   removal, timeouts>>

\* a client on which nothing has been resolved yet
NoRoutes ==
    /\ routeCache = <<>>
    /\ actionCache = <<>>
    /\ parameterizedCache = <<>>
    /\ handles = {}
    /\ epoch = 0
    /\ last = [op |-> "init", on |-> {}, name |-> <<>>, id |-> NoId, result |-> {},
               member |-> FALSE, payload |-> Absent, query |-> Absent,
               req |-> {}, threw |-> FALSE,
               before |-> [routes |-> 0, actions |-> 0, parameterized |-> 0],
               registeredBefore |-> 0]

\* new DynamicClient({baseUrl})
RouteIdle ==
    /\ apiConfig = APIConfigOf(NoNum, NoNum, Undefined, NoRules)
    /\ config = APIClientConfig(apiConfig)
    /\ NoRoutes

\* new DynamicClient(config)
InitRoute ==
    /\ apiConfig \in {APIConfigOf(NoNum, NoNum, d, r) : d \in RouteDefaultMethods, r \in RouteRuleSets}
                        \cup {KebabConfig}
    /\ config = APIClientConfig(apiConfig)
    /\ NoRoutes

(***************************************************************************)
(* The execution pipeline: APIClient.request and executeRequest            *)
(* (src/src/core/api-client.ts), ResponseParser                            *)
(* (src/src/libs/parsers/response-parser.ts), RetryManager                 *)
(* (src/src/libs/managers/retry-manager.ts) and InterceptorManager         *)
(* (src/unnamed/part_006).  request() is followed from await to await;     *)
(* the transport (fetch) and the timers are the environment.               *)
(*                                                                         *)
(* A thrown value is a record: isError tells a JavaScript Error object     *)
(* (with a name) from a plain object such as a ClientError (with a type);  *)
(* cause records what actually happened and is read by no code.            *)
(***************************************************************************)
JSError(name, message, cause) ==
    [isError |-> TRUE, name |-> name, message |-> message,
     type |-> "", originalName |-> "", cause |-> cause]

ClientError(message, type, originalName, cause) ==
    [isError |-> FALSE, name |-> "", message |-> message,
     type |-> type, originalName |-> originalName, cause |-> cause]

NoError == ClientError("", "", "", "none")

\* ResponseParser.createClientError
createClientError(error) ==
    IF error.isError
    THEN IF error.name = "AbortError"
         THEN ClientError("Request was aborted", "abort", error.name, error.cause)
         ELSE IF error.name = "TypeError"
         THEN ClientError("Network error", "network", error.name, error.cause)
         ELSE ClientError(IF error.message # "" THEN error.message ELSE "Unknown error",
                          "network", error.name, error.cause)
    ELSE ClientError(error.message, "network", "UnknownError", error.cause)

\* RetryManager.shouldRetry
shouldRetry(error) ==
    IF error.type = "abort" THEN FALSE
    ELSE IF error.type = "timeout" THEN TRUE
    ELSE IF error.type = "network" THEN TRUE
    ELSE FALSE

MAX_DELAY == 30000

\* Math.random(), in hundredths
Randoms == {0, 50}

\* the backoff delay without the cap
calculateBackoffDelay_uncapped(attemptNo, baseDelay, random) ==
    LET exponentialDelay == baseDelay * 2 ^ attemptNo
    IN  exponentialDelay + (random * exponentialDelay) \div 1000

\* RetryManager.calculateBackoffDelay; random is Math.random() in hundredths
calculateBackoffDelay(attemptNo, baseDelay, random) ==
    LET exponentialDelay == baseDelay * 2 ^ attemptNo
        jitter == (random * exponentialDelay) \div 1000
    IN  IF exponentialDelay + jitter < MAX_DELAY THEN exponentialDelay + jitter ELSE MAX_DELAY

\* what the transport resolves with: {ok, status, statusText, json()}; body is
\* "object" (JSON without a success field), "envelope" (a JSON object with
\* success: true), "null" (the JSON null) or "invalid" (json() rejects)
TransportResponse(status, statusText, body) ==
    [ok |-> status \in 200..299, status |-> status, statusText |-> statusText, body |-> body]

APIResponse(success, hasData, code, message) ==
    [success |-> success, hasData |-> hasData, code |-> code, message |-> message]

NoResponse == APIResponse(FALSE, FALSE, -1, "")

\* ResponseParser.parseResponse
parseResponse(response) ==
    IF response.body \in {"invalid", "null"}
    THEN APIResponse(FALSE, FALSE, response.status, "Failed to parse response")
    ELSE IF response.body = "envelope"
    THEN APIResponse(TRUE, TRUE, 0, "")
    ELSE APIResponse(response.ok, response.ok,
                     IF response.ok THEN 0 ELSE response.status,
                     IF response.ok THEN ""
                     ELSE IF response.statusText # "" THEN response.statusText
                     ELSE "Request failed")

\* the inputs of the pipeline
ClientRetries == {NoNum, Some(0), Some(1), Some(2)}
RequestRetries == {NoNum, Some(0), Some(-1)}
Signals == {"undefined", "caller"}
RequestInterceptorKinds == {"pass", "bare", "throw"}
ResponseInterceptorKinds == {"pass", "throw"}
TransportResponses ==
    { TransportResponse(200, "OK", "object"),
      TransportResponse(404, "Not Found", "object"),
      TransportResponse(500, "", "envelope"),
      TransportResponse(502, "Bad Gateway", "invalid") }
\* the same, and a 200 whose body is the JSON text null
ParsedResponses == TransportResponses \cup {TransportResponse(200, "OK", "null")}
MaxInterceptors == 1

\* the errors fetch rejects with: a network failure, or the abort of its
\* signal, which is the caller's when the request has one and otherwise the
\* signal of the controller the timeout aborts
FetchErrors(requestConfig) ==
    { JSError("TypeError", "Failed to fetch", "network"),
      JSError("AbortError", "The operation was aborted.",
              IF requestConfig.signal = "caller" THEN "abort" ELSE "timeout") }

\* a sequence without its i-th element, and the elements at the positions kept
RemoveAt(seq, i) == SubSeq(seq, 1, i - 1) \o SubSeq(seq, i + 1, Len(seq))
Selected(seq, kept) ==
    LET F[n \in 0..Len(seq)] ==
            IF n = 0 THEN <<>>
            ELSE IF n \in kept THEN Append(F[n - 1], seq[n]) ELSE F[n - 1]
    IN  F[Len(seq)]

\* `auto-${Date.now()}-${Math.random()}`: an id no entry of the Set has and no
\* caller knows, named by the least number not in use in that Set
AutoIdNames == <<<<"a", "u", "t", "o", "-", "0">>, <<"a", "u", "t", "o", "-", "1">>, <<"a", "u", "t", "o", "-", "2">>, <<"a", "u", "t", "o", "-", "3">>, <<"a", "u", "t", "o", "-", "4">>, <<"a", "u", "t", "o", "-", "5">>>>
AutoId(ids) ==
    AutoIdNames[Min({n \in 1..Len(AutoIdNames) : \A i \in 1..Len(ids) : ids[i] # AutoIdNames[n]})]

\* what a remove*Interceptor(id) call returned
Removal(collection, id, result) == [collection |-> collection, id |-> id, result |-> result]
NoRemoval == Removal("none", <<>>, FALSE)

PipelineIdle ==
    /\ requestInterceptors = <<>>
    /\ responseInterceptors = <<>>
    /\ requested = RequestConfigOf(Undefined, Undefined, Absent, Absent)
    /\ pc = "idle"
    /\ cursor = 0
    /\ finalConfig = mergeConfig(RequestConfigOf(Undefined, Undefined, Absent, Absent),
                                 APIClientConfig(APIConfigOf(NoNum, NoNum, Undefined, NoRules)))
    /\ attempt = 0
    /\ maxAttempts = 0
    /\ finalResponse = NoResponse
    /\ returned = NoResponse
    /\ thrown = NoError
    /\ outcomes = <<>>
    /\ delays = <<>>
    /\ registered = [request |-> <<>>, response |-> <<>>]
    /\ invoked = <<>>
    /\ requestIds = <<>>
    /\ responseIds = <<>>
    /\ removal = NoRemoval
    /\ timeouts = 0

\* interceptors.addRequestInterceptor(interceptor): the entry gets a generated id
AddRequestInterceptor(kind) ==
    /\ requestInterceptors' = Append(requestInterceptors, kind)
    /\ requestIds' = Append(requestIds, AutoId(requestIds))
    /\ UNCHANGED <<responseInterceptors, requested, pc, cursor, finalConfig, attempt, maxAttempts,
                   finalResponse, returned, thrown, outcomes, delays, registered, invoked,
                   responseIds, removal, timeouts>>

\* interceptors.addResponseInterceptor(interceptor)
AddResponseInterceptor(kind) ==
    /\ responseInterceptors' = Append(responseInterceptors, kind)
    /\ responseIds' = Append(responseIds, AutoId(responseIds))
    /\ UNCHANGED <<requestInterceptors, requested, pc, cursor, finalConfig, attempt, maxAttempts,
                   finalResponse, returned, thrown, outcomes, delays, registered, invoked,
                   requestIds, removal, timeouts>>

\* interceptors.addRequestInterceptorWithId(id, interceptor): Set.add of a new
\* {id, interceptor} object, whatever ids the Set holds
AddRequestInterceptorWithId(id, kind) ==
    /\ requestInterceptors' = Append(requestInterceptors, kind)
    /\ requestIds' = Append(requestIds, id)
    /\ UNCHANGED <<responseInterceptors, requested, pc, cursor, finalConfig, attempt, maxAttempts,
                   finalResponse, returned, thrown, outcomes, delays, registered, invoked,
                   responseIds, removal, timeouts>>

\* interceptors.addResponseInterceptorWithId(id, interceptor)
AddResponseInterceptorWithId(id, kind) ==
    /\ responseInterceptors' = Append(responseInterceptors, kind)
    /\ responseIds' = Append(responseIds, id)
    /\ UNCHANGED <<requestInterceptors, requested, pc, cursor, finalConfig, attempt, maxAttempts,
                   finalResponse, returned, thrown, outcomes, delays, registered, invoked,
                   requestIds, removal, timeouts>>

\* removeRequestInterceptor with every entry of that id deleted
RemoveRequestInterceptor_everyMatch(id) ==
    LET kept == {i \in 1..Len(requestIds) : requestIds[i] # id}
    IN  /\ removal' = Removal("request", id, Cardinality(kept) < Len(requestIds))
        /\ requestIds' = Selected(requestIds, kept)
        /\ requestInterceptors' = Selected(requestInterceptors, kept)
        /\ UNCHANGED <<responseInterceptors, requested, pc, cursor, finalConfig, attempt,
                       maxAttempts, finalResponse, returned, thrown, outcomes, delays, registered,
                       invoked, responseIds, timeouts>>

\* interceptors.removeRequestInterceptor(id): the first entry with that id is
\* deleted from the Set; a for-of loop running over the Set keeps its place
RemoveRequestInterceptor(id) ==
    LET found == {i \in 1..Len(requestIds) : requestIds[i] = id}
    IN  /\ removal' = Removal("request", id, found # {})
        /\ IF found = {}
           THEN UNCHANGED <<requestInterceptors, requestIds, cursor>>
           ELSE /\ requestInterceptors' = RemoveAt(requestInterceptors, Min(found))
                /\ requestIds' = RemoveAt(requestIds, Min(found))
                /\ cursor' = IF pc = "requestInterceptors" /\ Min(found) < cursor
                             THEN cursor - 1 ELSE cursor
        /\ UNCHANGED <<responseInterceptors, requested, pc, finalConfig, attempt, maxAttempts,
                       finalResponse, returned, thrown, outcomes, delays, registered, invoked,
                       responseIds, timeouts>>

\* interceptors.removeResponseInterceptor(id)
RemoveResponseInterceptor(id) ==
    LET found == {i \in 1..Len(responseIds) : responseIds[i] = id}
    IN  /\ removal' = Removal("response", id, found # {})
        /\ IF found = {}
           THEN UNCHANGED <<responseInterceptors, responseIds, cursor>>
           ELSE /\ responseInterceptors' = RemoveAt(responseInterceptors, Min(found))
                /\ responseIds' = RemoveAt(responseIds, Min(found))
                /\ cursor' = IF pc = "responseInterceptors" /\ Min(found) < cursor
                             THEN cursor - 1 ELSE cursor
        /\ UNCHANGED <<requestInterceptors, requested, pc, finalConfig, attempt, maxAttempts,
                       finalResponse, returned, thrown, outcomes, delays, registered, invoked,
                       requestIds, timeouts>>

\* interceptors.clearRequestInterceptors(): a for-of loop running over the
\* Set finds none of its former entries, only those added afterwards
ClearRequestInterceptors ==
    /\ requestInterceptors' = <<>>
    /\ requestIds' = <<>>
    /\ cursor' = IF pc = "requestInterceptors" THEN 1 ELSE cursor
    /\ UNCHANGED <<responseInterceptors, requested, pc, finalConfig, attempt, maxAttempts,
                   finalResponse, returned, thrown, outcomes, delays, registered, invoked,
                   responseIds, removal, timeouts>>

\* interceptors.clearResponseInterceptors()
ClearResponseInterceptors ==
    /\ responseInterceptors' = <<>>
    /\ responseIds' = <<>>
    /\ cursor' = IF pc = "responseInterceptors" THEN 1 ELSE cursor
    /\ UNCHANGED <<requestInterceptors, requested, pc, finalConfig, attempt, maxAttempts,
                   finalResponse, returned, thrown, outcomes, delays, registered, invoked,
                   requestIds, removal, timeouts>>

\* request(config), up to its first for-of loop
Request(requestConfig) ==
    /\ pc = "idle"
    /\ IF mergeConfigThrows(requestConfig, config)
       THEN /\ pc' = "done"
            /\ thrown' = JSError("TypeError", "Cannot read properties of null", "destroyed")
            /\ UNCHANGED <<finalConfig, cursor>>
       ELSE /\ finalConfig' = mergeConfig(requestConfig, config)
            /\ cursor' = 1
            /\ pc' = "requestInterceptors"
            /\ UNCHANGED thrown
    /\ requested' = requestConfig
    /\ registered' = [request |-> requestInterceptors, response |-> responseInterceptors]
    /\ UNCHANGED <<requestInterceptors, responseInterceptors, attempt, maxAttempts,
                   finalResponse, returned, outcomes, delays, invoked>>
    /\ UNCHANGED <<registryVars, timeouts>>

\* what a request interceptor of the given kind returns for a config
RequestInterceptorResult(kind, requestConfig) ==
    IF kind = "bare"
    THEN [RequestConfigOf(Undefined, Undefined, Absent, Absent)
            EXCEPT !.headers = Obj({<<<<"a", "u", "t", "h", "o", "r", "i", "z", "a", "t", "i", "o", "n">>, <<"t">>>>})]
    ELSE requestConfig

\* one call of an interceptor: its stage, what it does, what it was given and
\* the transport calls made before it
Invocation(stage, kind, input) ==
    [stage |-> stage, kind |-> kind, input |-> input, calls |-> Len(outcomes)]

\* one turn of the loop over getRequestInterceptors()
RequestInterceptorStep ==
    /\ pc = "requestInterceptors"
    /\ cursor <= Len(requestInterceptors)
    /\ invoked' = Append(invoked,
                         Invocation("request", requestInterceptors[cursor], finalConfig))
    /\ IF requestInterceptors[cursor] = "throw"
       THEN /\ pc' = "done"
            /\ thrown' = JSError("Error", "interceptor failed", "interceptor")
            /\ UNCHANGED <<finalConfig, cursor>>
       ELSE /\ finalConfig' = mergeConfig(
                    RequestInterceptorResult(requestInterceptors[cursor], finalConfig),
                    finalConfig)
            /\ cursor' = cursor + 1
            /\ UNCHANGED <<pc, thrown>>
    /\ UNCHANGED <<requestInterceptors, responseInterceptors, requested, attempt, maxAttempts,
                   finalResponse, returned, outcomes, delays, registered>>
    /\ UNCHANGED <<registryVars, timeouts>>

\* the end of the request interceptor loop: attempt = 0, maxAttempts
BeginAttempts ==
    /\ pc = "requestInterceptors"
    /\ cursor > Len(requestInterceptors)
    /\ attempt' = 0
    /\ maxAttempts' = finalConfig.retries.v + 1
    /\ pc' = "loop"
    /\ UNCHANGED <<requestInterceptors, responseInterceptors, requested, cursor, finalConfig,
                   finalResponse, returned, thrown, outcomes, delays, registered, invoked>>
    /\ UNCHANGED <<registryVars, timeouts>>

\* while (attempt < maxAttempts): executeRequest sets its timeout timer and
\* awaits fetch
ExecuteRequest ==
    /\ pc = "loop"
    /\ attempt < maxAttempts
    /\ pc' = "fetch"
    /\ UNCHANGED <<requestInterceptors, responseInterceptors, requested, cursor, finalConfig, attempt,
                   maxAttempts, finalResponse, returned, thrown, outcomes, delays, registered,
                   invoked>>
    /\ timeouts' = timeouts + 1
    /\ UNCHANGED registryVars

\* the loop ends without a return: throw new Error(...)
Exhausted ==
    /\ pc = "loop"
    /\ attempt >= maxAttempts
    /\ pc' = "done"
    /\ thrown' = JSError("Error", "Request failed after maximum retry attempts.", "exhausted")
    /\ UNCHANGED <<requestInterceptors, responseInterceptors, requested, cursor, finalConfig, attempt,
                   maxAttempts, finalResponse, returned, outcomes, delays, registered, invoked>>
    /\ UNCHANGED <<registryVars, timeouts>>

\* request()'s catch block, entered with the value thrown inside its try
Catch(error) ==
    LET clientError == createClientError(error)
    IN  /\ attempt' = attempt + 1
        /\ IF attempt + 1 >= maxAttempts \/ ~shouldRetry(clientError)
           THEN /\ thrown' = clientError
                /\ pc' = "done"
                /\ UNCHANGED delays
           ELSE /\ \E random \in Randoms :
                      delays' = Append(delays,
                          calculateBackoffDelay(attempt, finalConfig.retryDelay.v, random))
                /\ pc' = "delay"
                /\ UNCHANGED thrown

\* fetch resolves: clearTimeout, parseResponse, and the response interceptor
\* loop begins
FetchResolves(response) ==
    /\ pc = "fetch"
    /\ outcomes' = Append(outcomes, [kind |-> IF response.ok THEN "ok" ELSE "http",
                                     status |-> response.status, body |-> response.body])
    /\ finalResponse' = parseResponse(response)
    /\ cursor' = 1
    /\ pc' = "responseInterceptors"
    /\ UNCHANGED <<requestInterceptors, responseInterceptors, requested, finalConfig, attempt,
                   maxAttempts, returned, thrown, delays, registered, invoked>>
    /\ timeouts' = timeouts - 1
    /\ UNCHANGED registryVars

\* fetch rejects: executeRequest's catch clears the timer and throws
\* createClientError(error) into request()'s catch
FetchRejects(error) ==
    /\ pc = "fetch"
    /\ outcomes' = Append(outcomes, [kind |-> error.cause, status |-> 0, body |-> "none"])
    /\ Catch(createClientError(error))
    /\ UNCHANGED <<requestInterceptors, responseInterceptors, requested, cursor, finalConfig,
                   maxAttempts, finalResponse, returned, registered, invoked>>
    /\ timeouts' = timeouts - 1
    /\ UNCHANGED registryVars

\* one turn of the loop over getResponseInterceptors(), inside the try
ResponseInterceptorStep ==
    /\ pc = "responseInterceptors"
    /\ cursor <= Len(responseInterceptors)
    /\ invoked' = Append(invoked,
                         Invocation("response", responseInterceptors[cursor], finalResponse))
    /\ IF responseInterceptors[cursor] = "throw"
       THEN /\ Catch(JSError("Error", "interceptor failed", "interceptor"))
            /\ UNCHANGED cursor
       ELSE /\ cursor' = cursor + 1
            /\ UNCHANGED <<pc, attempt, thrown, delays>>
    /\ UNCHANGED <<requestInterceptors, responseInterceptors, requested, finalConfig, maxAttempts,
                   finalResponse, returned, outcomes, registered>>
    /\ UNCHANGED <<registryVars, timeouts>>

\* return finalResponse
Return ==
    /\ pc = "responseInterceptors"
    /\ cursor > Len(responseInterceptors)
    /\ returned' = finalResponse
    /\ pc' = "done"
    /\ UNCHANGED <<requestInterceptors, responseInterceptors, requested, cursor, finalConfig, attempt,
                   maxAttempts, finalResponse, thrown, outcomes, delays, registered, invoked>>
    /\ UNCHANGED <<registryVars, timeouts>>

\* await RetryManager.delay(delay) is over
DelayElapsed ==
    /\ pc = "delay"
    /\ pc' = "loop"
    /\ UNCHANGED <<requestInterceptors, responseInterceptors, requested, cursor, finalConfig, attempt,
                   maxAttempts, finalResponse, returned, thrown, outcomes, delays, registered,
                   invoked>>
    /\ UNCHANGED <<registryVars, timeouts>>

\* the requests the caller makes: client.get("/x", {retries, signal})
Requests ==
    { [RequestConfigOf(GET, <<"/", "x">>, Absent, Absent) EXCEPT !.retries = r, !.signal = g] :
        r \in RequestRetries, g \in Signals }

NextPipeline ==
    \/ \E kind \in RequestInterceptorKinds :
          /\ pc = "idle" /\ Len(requestInterceptors) < MaxInterceptors
          /\ AddRequestInterceptor(kind) /\ UNCHANGED <<resolverVars, routeVars, callerVars>>
    \/ \E kind \in ResponseInterceptorKinds :
          /\ pc = "idle" /\ Len(responseInterceptors) < MaxInterceptors
          /\ AddResponseInterceptor(kind) /\ UNCHANGED <<resolverVars, routeVars, callerVars>>
    \/ \E requestConfig \in Requests :
          Request(requestConfig) /\ UNCHANGED <<resolverVars, routeVars, callerVars>>
    \/ RequestInterceptorStep /\ UNCHANGED <<resolverVars, routeVars, callerVars>>
    \/ BeginAttempts /\ UNCHANGED <<resolverVars, routeVars, callerVars>>
    \/ ExecuteRequest /\ UNCHANGED <<resolverVars, routeVars, callerVars>>
    \/ Exhausted /\ UNCHANGED <<resolverVars, routeVars, callerVars>>
    \/ \E response \in TransportResponses :
          FetchResolves(response) /\ UNCHANGED <<resolverVars, routeVars, callerVars>>
    \/ \E error \in FetchErrors(finalConfig) :
          FetchRejects(error) /\ UNCHANGED <<resolverVars, routeVars, callerVars>>
    \/ ResponseInterceptorStep /\ UNCHANGED <<resolverVars, routeVars, callerVars>>
    \/ Return /\ UNCHANGED <<resolverVars, routeVars, callerVars>>
    \/ DelayElapsed /\ UNCHANGED <<resolverVars, routeVars, callerVars>>

\* the caller's code runs before request() is called and whenever request()
\* is suspended at an await: on a request interceptor it has called, on fetch,
\* on parseResponse or a response interceptor, or on the backoff delay
CallerRuns ==
    \/ pc \in {"idle", "fetch", "responseInterceptors", "delay"}
    \/ pc = "requestInterceptors" /\ invoked # <<>>

MaxRegistered == 2

\* the requests made while the interceptors change: client.get("/x", {retries})
PlainRequests == {r \in Requests : r.signal = "undefined" /\ r.retries \in {NoNum, Some(-1)}}

\* one request, with the caller clearing the interceptors it added while the
\* request is in flight
NextInterceptors ==
    \/ \E kind \in RequestInterceptorKinds :
          /\ pc = "idle" /\ Len(requestInterceptors) < MaxRegistered
          /\ AddRequestInterceptor(kind) /\ UNCHANGED <<resolverVars, routeVars, callerVars>>
    \/ \E kind \in ResponseInterceptorKinds :
          /\ pc = "idle" /\ Len(responseInterceptors) < MaxRegistered
          /\ AddResponseInterceptor(kind) /\ UNCHANGED <<resolverVars, routeVars, callerVars>>
    \/ CallerRuns /\ ClearRequestInterceptors /\ UNCHANGED <<resolverVars, routeVars, callerVars>>
    \/ CallerRuns /\ ClearResponseInterceptors /\ UNCHANGED <<resolverVars, routeVars, callerVars>>
    \/ \E requestConfig \in PlainRequests :
          Request(requestConfig) /\ UNCHANGED <<resolverVars, routeVars, callerVars>>
    \/ RequestInterceptorStep /\ UNCHANGED <<resolverVars, routeVars, callerVars>>
    \/ BeginAttempts /\ UNCHANGED <<resolverVars, routeVars, callerVars>>
    \/ ExecuteRequest /\ UNCHANGED <<resolverVars, routeVars, callerVars>>
    \/ Exhausted /\ UNCHANGED <<resolverVars, routeVars, callerVars>>
    \/ \E response \in ParsedResponses :
          FetchResolves(response) /\ UNCHANGED <<resolverVars, routeVars, callerVars>>
    \/ \E error \in FetchErrors(finalConfig) :
          FetchRejects(error) /\ UNCHANGED <<resolverVars, routeVars, callerVars>>
    \/ ResponseInterceptorStep /\ UNCHANGED <<resolverVars, routeVars, callerVars>>
    \/ Return /\ UNCHANGED <<resolverVars, routeVars, callerVars>>
    \/ DelayElapsed /\ UNCHANGED <<resolverVars, routeVars, callerVars>>

\* the caller traverses: any handle obtained so far may be used again
NextRoute ==
    \/ \E prop \in ClientProps : ClientGet(prop) /\ UNCHANGED <<resolverVars, callerVars, pipelineVars>>
    \/ \E h \in handles, id \in Ids \cup {NoId} : CallRoute(h, id) /\ UNCHANGED <<resolverVars, callerVars, pipelineVars>>
    \/ \E h \in handles, name \in PropNames : HandleGet(h, name) /\ UNCHANGED <<resolverVars, callerVars, pipelineVars>>
    \/ ClearProxyCache /\ UNCHANGED <<resolverVars, callerVars, pipelineVars>>

\* the steps of an expression: .name and (id)
Name(name) == [step |-> "name", text |-> name]
Call(id) == [step |-> "call", text |-> String(id)]

\* the caller evaluates chains client.c.a.s(payload), client.c(id)(payload), ...:
\* each step applies to the value the previous step returned
NextInvoke ==
    \/ \E prop \in ClientProps :
          ClientGet(prop) /\ chain' = <<Name(prop)>> /\ UNCHANGED <<resolverVars, pipelineVars>>
    \/ \E h \in last.result, id \in Ids \cup {NoId} :
          CallRoute(h, id) /\ chain' = Append(chain, Call(id)) /\ UNCHANGED <<resolverVars, pipelineVars>>
    \/ \E h \in last.result, name \in InvokeNames :
          HandleGet(h, name) /\ chain' = Append(chain, Name(name)) /\ UNCHANGED <<resolverVars, pipelineVars>>
    \/ \E h \in last.result, i \in Invocations :
          Invoke(h, i[1], i[2]) /\ UNCHANGED <<resolverVars, callerVars, pipelineVars>>
    \/ Destroy /\ chain' = <<>> /\ UNCHANGED resolverVars

(***************************************************************************)
(* Specifications.                                                         *)
(***************************************************************************)
InitResolver ==
    /\ rAction \in ActionNames
    /\ rOptions \in [defaultMethod : DefaultMethods, methodRules : RuleSets]
    /\ rExplicit \in ExplicitMethods
    /\ rResult = Undefined
    /\ RouteIdle
    /\ chain = <<>>
    /\ PipelineIdle

NextResolver == Resolve

SpecResolver == InitResolver /\ [][NextResolver]_vars

Init == ResolverIdle /\ RouteIdle /\ chain = <<>> /\ PipelineIdle

Next == NextRoute

Spec == Init /\ [][Next]_vars

InitInvoke == ResolverIdle /\ InitRoute /\ chain = <<>> /\ PipelineIdle

\* the configs a client is constructed with: retries with the default
\* retryDelay, and one retryDelay whose second backoff passes MAX_DELAY
PipelineConfigs ==
    {APIConfigOf(r, NoNum, Undefined, NoRules) : r \in ClientRetries}
        \cup {APIConfigOf(Some(2), Some(20000), Undefined, NoRules)}

InitPipeline ==
    /\ ResolverIdle
    /\ apiConfig \in PipelineConfigs
    /\ config = APIClientConfig(apiConfig)
    /\ NoRoutes
    /\ chain = <<>>
    /\ PipelineIdle

SpecPipeline == InitPipeline /\ [][NextPipeline]_vars

\* a step of the request in flight: an interceptor returns or throws, the
\* transport settles, the backoff timer fires
PipelineStep ==
    \/ RequestInterceptorStep /\ UNCHANGED <<resolverVars, routeVars, callerVars>>
    \/ BeginAttempts /\ UNCHANGED <<resolverVars, routeVars, callerVars>>
    \/ ExecuteRequest /\ UNCHANGED <<resolverVars, routeVars, callerVars>>
    \/ Exhausted /\ UNCHANGED <<resolverVars, routeVars, callerVars>>
    \/ \E response \in TransportResponses :
          FetchResolves(response) /\ UNCHANGED <<resolverVars, routeVars, callerVars>>
    \/ \E error \in FetchErrors(finalConfig) :
          FetchRejects(error) /\ UNCHANGED <<resolverVars, routeVars, callerVars>>
    \/ ResponseInterceptorStep /\ UNCHANGED <<resolverVars, routeVars, callerVars>>
    \/ Return /\ UNCHANGED <<resolverVars, routeVars, callerVars>>
    \/ DelayElapsed /\ UNCHANGED <<resolverVars, routeVars, callerVars>>

\* every interceptor, transport call and delay completes
SpecPipelineFair == SpecPipeline /\ WF_vars(PipelineStep)

InitInterceptors ==
    /\ ResolverIdle
    /\ apiConfig = APIConfigOf(Some(1), NoNum, Undefined, NoRules)
    /\ config = APIClientConfig(apiConfig)
    /\ NoRoutes
    /\ chain = <<>>
    /\ PipelineIdle

SpecInterceptors == InitInterceptors /\ [][NextInterceptors]_vars

SpecInvoke == InitInvoke /\ [][NextInvoke]_vars

\* the ids the caller registers and removes interceptors under
RegistryIds == {<<"a">>, <<"b">>}
RegistryRequestKinds == {"pass", "bare"}
RegistryResponseKinds == {"pass"}

\* the caller registers and removes interceptors, makes one request that the
\* transport answers, and clears the collections before or after it
NextRegistry ==
    \/ \E kind \in RegistryRequestKinds :
          /\ pc = "idle" /\ Len(requestInterceptors) < MaxRegistered
          /\ AddRequestInterceptor(kind) /\ UNCHANGED <<resolverVars, routeVars, callerVars>>
    \/ \E kind \in RegistryResponseKinds :
          /\ pc = "idle" /\ Len(responseInterceptors) < MaxRegistered
          /\ AddResponseInterceptor(kind) /\ UNCHANGED <<resolverVars, routeVars, callerVars>>
    \/ \E id \in RegistryIds, kind \in RegistryRequestKinds :
          /\ pc = "idle" /\ Len(requestInterceptors) < MaxRegistered
          /\ AddRequestInterceptorWithId(id, kind)
          /\ UNCHANGED <<resolverVars, routeVars, callerVars>>
    \/ \E id \in RegistryIds, kind \in RegistryResponseKinds :
          /\ pc = "idle" /\ Len(responseInterceptors) < MaxRegistered
          /\ AddResponseInterceptorWithId(id, kind)
          /\ UNCHANGED <<resolverVars, routeVars, callerVars>>
    \/ \E id \in RegistryIds :
          /\ pc = "idle"
          /\ RemoveRequestInterceptor(id) /\ UNCHANGED <<resolverVars, routeVars, callerVars>>
    \/ \E id \in RegistryIds :
          /\ pc = "idle"
          /\ RemoveResponseInterceptor(id) /\ UNCHANGED <<resolverVars, routeVars, callerVars>>
    \/ pc \in {"idle", "done"} /\ ClearRequestInterceptors /\ UNCHANGED <<resolverVars, routeVars, callerVars>>
    \/ pc \in {"idle", "done"} /\ ClearResponseInterceptors /\ UNCHANGED <<resolverVars, routeVars, callerVars>>
    \/ Request(RequestConfigOf(GET, <<"/", "x">>, Absent, Absent))
          /\ UNCHANGED <<resolverVars, routeVars, callerVars>>
    \/ RequestInterceptorStep /\ UNCHANGED <<resolverVars, routeVars, callerVars>>
    \/ BeginAttempts /\ UNCHANGED <<resolverVars, routeVars, callerVars>>
    \/ ExecuteRequest /\ UNCHANGED <<resolverVars, routeVars, callerVars>>
    \/ FetchResolves(TransportResponse(200, "OK", "object"))
          /\ UNCHANGED <<resolverVars, routeVars, callerVars>>
    \/ ResponseInterceptorStep /\ UNCHANGED <<resolverVars, routeVars, callerVars>>
    \/ Return /\ UNCHANGED <<resolverVars, routeVars, callerVars>>

SpecRegistry == InitInterceptors /\ [][NextRegistry]_vars

\* the caller resolves some routes and registers some interceptors, and
\* destroys the client
NextTeardown ==
    \/ ClientGet(<<"x">>) /\ UNCHANGED <<resolverVars, callerVars, pipelineVars>>
    \/ \E h \in handles, id \in {NumberId(<<"1">>), NoId} :
          CallRoute(h, id) /\ UNCHANGED <<resolverVars, callerVars, pipelineVars>>
    \/ \E h \in handles :
          HandleGet(h, <<"b", "a", "n">>) /\ UNCHANGED <<resolverVars, callerVars, pipelineVars>>
    \/ /\ Len(requestInterceptors) < MaxInterceptors
       /\ AddRequestInterceptor("pass") /\ UNCHANGED <<resolverVars, routeVars, callerVars>>
    \/ /\ Len(responseInterceptors) < MaxInterceptors
       /\ AddResponseInterceptor("pass") /\ UNCHANGED <<resolverVars, routeVars, callerVars>>
    \/ Destroy /\ UNCHANGED <<resolverVars, callerVars>>

SpecTeardown == Init /\ [][NextTeardown]_vars

(***************************************************************************)
(* Claims about the method resolver, checked under SpecResolver.           *)
(***************************************************************************)
Resolved == rResult # Undefined

\* what steps 2-5 of determineMethod would pick: the direct name, or the first
\* matching rule, or the first semantic group
DirectNameOf(a) == {m \in HTTPMethods : toLowerCase(m) = toLowerCase(a)}

\* C9: determineMethod called with an explicit method returns that explicit
\* method, for every action name, methodRules mapping and default method.
C9_ExplicitMethodWins ==
    (Resolved /\ rExplicit # Undefined) => rResult = rExplicit

\* C9 witness: an explicit method was returned although the action is a direct
\* method name of another method and a rule matching the action gives a third.
C9_Witness ==
    /\ Resolved
    /\ rExplicit = PATCH
    /\ rAction = <<"g", "e", "t">>
    /\ rOptions.methodRules = Rules(<<Rule(<<"g", "e", "t">>, POST), Rule(<<"b", "a", "n">>, DELETE)>>)
    /\ rResult = PATCH

\* C10: with no explicit method, an action name equal (case-insensitively) to
\* GET, POST, PUT, DELETE or PATCH resolves to that method in uppercase,
\* whatever methodRules and the default method hold.
C10_DirectMethodBeforeRules ==
    (Resolved /\ rExplicit = Undefined) =>
        \A m \in DirectNameOf(rAction) : rResult = m

\* C10 witness: a mixed-case direct name resolved to its uppercase method while
\* a rule keyed by that very name maps it to another method.
C10_Witness ==
    /\ Resolved
    /\ rExplicit = Undefined
    /\ rAction = <<"D", "e", "l", "e", "t", "e">>
    /\ rOptions.methodRules = Rules(<<Rule(<<"D", "E", "L", "E", "T", "E">>, GET), Rule(<<"p", "*">>, POST), Rule(<<"*", "t">>, PATCH)>>)
    /\ rOptions.defaultMethod = PUT
    /\ rResult = DELETE

(***************************************************************************)
(* Claims about the route engine.  C1 and C2 are about an invocation at    *)
(* the end of a chain and are checked under SpecInvoke; C3 and C4 are      *)
(* about handle identity and the caches and are checked under Spec.        *)
(***************************************************************************)
\* the endpoint the caller's expression denotes: /step/step/...
RECURSIVE ChainPath(_)
ChainPath(c) ==
    IF c = <<>> THEN <<>>
    ELSE ChainPath(SubSeq(c, 1, Len(c) - 1))
            \o (IF c[Len(c)].text = <<>> THEN <<>> ELSE <<"/">> \o c[Len(c)].text)

\* the payload's `method` value, Undefined where it carries none
PayloadMethod(payload) ==
    IF \E e \in payload.entries : e[1] = <<"m", "e", "t", "h", "o", "d">>
    THEN (CHOOSE e \in payload.entries : e[1] = <<"m", "e", "t", "h", "o", "d">>)[2]
    ELSE Undefined

\* the payload without its `method` key
PayloadBody(payload) ==
    IF payload.present THEN Obj({e \in payload.entries : e[1] # <<"m", "e", "t", "h", "o", "d">>}) ELSE Absent

\* the caller has just invoked the value of client.c.a.s on a live client
InvokedTripleChain ==
    /\ last.op = "invoke"
    /\ config.live
    /\ Len(chain) = 3
    /\ \A i \in 1..3 : chain[i].step = "name"

\* the caller has just invoked the value of client.c(id) on a live client
InvokedParameterized ==
    /\ last.op = "invoke"
    /\ config.live
    /\ Len(chain) = 2
    /\ chain[1].step = "name"
    /\ chain[2].step = "call"
    /\ chain[2].text # <<>>

C2_DirectParameterizedCall ==
    InvokedParameterized =>
        /\ ~last.threw
        /\ Cardinality(last.req) = 1
        /\ \A r \in last.req :
              /\ r.url = ChainPath(chain)
              /\ r.method =
                    IF Truthy(PayloadMethod(last.payload)) THEN PayloadMethod(last.payload)
                    ELSE IF last.payload.entries = {} THEN GET
                    ELSE determineMethod(<<"u", "p", "d", "a", "t", "e">>, methodOptions, Undefined)
              /\ r.data = PayloadBody(last.payload)

\* C3: resolving client.c.a twice with no clear in between returns the same
\* handle both times, and the `actions` counter grows by one at the first
\* resolution and by zero at the second.
C3_SamePathSameHandle ==
    /\ \A h1, h2 \in handles :
          ( /\ h1.kind = "action" /\ h2.kind = "action"
            /\ h1.controller = h2.controller /\ h1.action = h2.action
            /\ h1.epoch = h2.epoch ) => h1 = h2
    /\ \A r \in last.result :
          (last.op = "get" /\ r.kind = "action") =>
              getStats.actions = last.before.actions + (IF r.serial = 1 THEN 1 ELSE 0)

\* C4: after clearProxyCache the three counters are 0, and whatever a path
\* resolves to afterwards was created after the clear: no handle made before
\* a clear is ever returned again.
C4_ClearResetsCaches ==
    /\ last.op = "clear" =>
          getStats = [routes |-> 0, actions |-> 0, parameterized |-> 0]
    /\ \A r \in last.result : r.epoch = epoch

\* C4's case: a controller resolved before the clear is read again after it,
\* and the value returned is not the handle from before the clear
C4_Witness ==
    /\ epoch = 1
    /\ last.op = "clientGet"
    /\ \E r \in last.result, old \in handles :
          /\ old.kind = "route" /\ old.controller = last.name /\ old.epoch = 0
          /\ r.controller = last.name
          /\ r # old

(***************************************************************************)
(* Claims about the execution pipeline, checked under SpecPipeline.        *)
(***************************************************************************)
\* the first n transport calls of the request all ended in a network error
NetworkFailures(n) == \A i \in 1..n : outcomes[i].kind = "network"

\* C5: on a client configured with retries = n >= 0, a request that does not
\* set retries itself never calls the transport more than n + 1 times, and
\* when every call fails with a network error it has called it n + 1 times
\* once it throws.
C5_RetriesPlusOneCalls ==
    (apiConfig.retries.def /\ apiConfig.retries.v >= 0 /\ ~requested.retries.def) =>
        /\ Len(outcomes) <= apiConfig.retries.v + 1
        /\ (pc = "done" /\ outcomes # <<>> /\ NetworkFailures(Len(outcomes))) =>
              (Len(outcomes) = apiConfig.retries.v + 1 /\ thrown # NoError)

\* C6: when the first k transport calls fail with a network error and call
\* k + 1 succeeds, k <= retries, the transport is called k + 1 times in all and
\* the request returns the successful response (unless an interceptor threw).
C6_SuccessAfterFailures ==
    \A k \in 0..(Len(outcomes) - 1) :
        (NetworkFailures(k) /\ outcomes[k + 1].kind = "ok" /\ k <= finalConfig.retries.v) =>
            /\ Len(outcomes) = k + 1
            /\ (pc = "done" /\ thrown.cause # "interceptor") =>
                  (thrown = NoError /\ returned.success)

\* C7: once a transport call has failed with the abort of the caller's signal,
\* the request throws at once: no further transport call and no backoff delay.
C7_AbortThrowsAtOnce ==
    \A i \in 1..Len(outcomes) :
        outcomes[i].kind = "abort" =>
            /\ Len(outcomes) = i
            /\ Len(delays) < i
            /\ pc = "done"
            /\ thrown # NoError

\* C8: a non-2xx response (whose body has no success field of its own) is
\* returned with success = false and error.code = the status; the transport is
\* not called again for that request and nothing is thrown (unless an
\* interceptor threw).
C8_HttpErrorReturned ==
    \A i \in 1..Len(outcomes) :
        (outcomes[i].kind = "http" /\ outcomes[i].body # "envelope") =>
            /\ Len(outcomes) = i
            /\ (pc = "done" /\ thrown.cause # "interceptor") =>
                  /\ thrown = NoError
                  /\ ~returned.success
                  /\ returned.code = outcomes[i].status

(***************************************************************************)
(* Further claims about the method resolver, checked under SpecResolver.   *)
(***************************************************************************)
\* a methodRules key matches an action: exactly (case-insensitively), by
\* prefix when the key ends in *, by suffix when it starts with *
KeyMatches(key, action) ==
    LET k == toLowerCase(key)
        a == toLowerCase(action)
    IN  \/ a = k
        \/ /\ k # <<>> /\ k[Len(k)] = "*"
           /\ Len(a) >= Len(k) - 1
           /\ SubSeq(a, 1, Len(k) - 1) = SubSeq(k, 1, Len(k) - 1)
        \/ /\ k # <<>> /\ k[1] = "*"
           /\ Len(a) >= Len(k) - 1
           /\ SubSeq(a, Len(a) - Len(k) + 2, Len(a)) = SubSeq(k, 2, Len(k))

\* the positions of the entries of the mapping whose key matches the action
MatchingEntries(rules, action) ==
    {i \in 1..Len(rules.entries) : KeyMatches(rules.entries[i].pattern, action)}

\* C11: with no explicit method and an action that is not a direct method
\* name, when some methodRules entry matches the action the result is the
\* method of the first matching entry, whatever semantic analysis would give.
C11_FirstMatchingRuleWins ==
    (Resolved /\ rExplicit = Undefined /\ DirectNameOf(rAction) = {}) =>
        \A i \in MatchingEntries(rOptions.methodRules, rAction) :
            (\A j \in MatchingEntries(rOptions.methodRules, rAction) : i <= j) =>
                rResult = rOptions.methodRules.entries[i].method

\* C11 witness: getUser starts with the GET keyword "get" and is matched by
\* two rules; the first of them in the mapping, "*User", gave PATCH.
C11_Witness ==
    /\ Resolved
    /\ rExplicit = Undefined
    /\ rAction = <<"g", "e", "t", "U", "s", "e", "r">>
    /\ rOptions.methodRules = Rules(<<Rule(<<"*", "U", "s", "e", "r">>, PATCH), Rule(<<"g", "e", "t", "*">>, DELETE)>>)
    /\ MatchingEntries(rOptions.methodRules, rAction) = {1, 2}
    /\ rResult = PATCH

(***************************************************************************)
(* Further claims about invocations, checked under SpecInvoke.             *)
(***************************************************************************)
\* the caller has just invoked the value of client.c.a on a live client
InvokedAction ==
    /\ last.op = "invoke"
    /\ config.live
    /\ Len(chain) = 2
    /\ chain[1].step = "name"
    /\ chain[2].step = "name"

\* the entries of the mapping whose key is the kebab-case form of the action
KebabEntries(rules, action) ==
    {i \in 1..Len(rules.entries) :
        toLowerCase(rules.entries[i].pattern) = camelToKebab(action)}

\* C12: on a client with useKebabCase, client.c.a() with no explicit method,
\* where a is not a direct method name and a methodRules key is exactly the
\* kebab-case form of a, issues its request with that rule's method, even
\* when a wildcard rule listed before it matches too.
C12_ExactKebabRuleWins ==
    ( /\ InvokedAction
      /\ config.useKebabCase.v
      /\ ~Truthy(PayloadMethod(last.payload))
      /\ DirectNameOf(chain[2].text) = {} ) =>
        \A i \in KebabEntries(methodOptions.methodRules, chain[2].text) :
            \A r \in last.req : r.method = methodOptions.methodRules.entries[i].method

\* the names the specification reserves: then, catch, finally and every name
\* that starts with two underscores
ReservedName(name) ==
    \/ name \in { <<"t", "h", "e", "n">>, <<"c", "a", "t", "c", "h">>, <<"f", "i", "n", "a", "l", "l", "y">> }
    \/ Len(name) >= 2 /\ name[1] = "_" /\ name[2] = "_"

\* the handles a property can be read on through a proxy
ProxyKinds == {"route", "actionRoute", "action", "param", "paramAction"}

\* C13: reading then, catch, finally or a name starting with __ on a
\* controller handle, an action-namespace view, an action handler, a
\* parameterized handle or a parameterized action handler returns undefined
\* and creates nothing: no handle, no cache entry.
C13_ReservedNamesAreUndefined ==
    [][ \A h \in handles :
          ( /\ h.kind \in ProxyKinds
            /\ last'.op = "get" /\ last'.on = {h} /\ ReservedName(last'.name) ) =>
              /\ last'.result = {}
              /\ handles' = handles
              /\ <<routeCache, actionCache, parameterizedCache>>' =
                    <<routeCache, actionCache, parameterizedCache>> ]_vars

\* C13's case: `finally` was read on a parameterized action handler and
\* undefined came back
C13_Witness ==
    /\ last.op = "get"
    /\ last.name = <<"f", "i", "n", "a", "l", "l", "y">>
    /\ \E h \in last.on : h.kind = "paramAction"
    /\ last.result = {}

(***************************************************************************)
(* Further claims about the client facade and the handles, checked under   *)
(* Spec.                                                                   *)
(***************************************************************************)
\* C14: reading then, catch, finally or a name starting with __ on the client
\* itself gives undefined: no route handle is returned and no entry is added
\* to the route cache.
C14_ClientReservedNamesAreUndefined ==
    /\ \A controller \in DOMAIN routeCache : ~ReservedName(controller)
    /\ (last.op = "clientGet" /\ ReservedName(last.name)) =>
          (last.result = {} /\ ~last.member)

(***************************************************************************)
(* Claims about the interceptor chains.                                    *)
(***************************************************************************)
IsRequestStage(invocation) == invocation.stage = "request"
IsResponseStage(invocation) == invocation.stage = "response"
KindsOf(log) == [i \in 1..Len(log) |-> log[i].kind]
TransportCalled == pc = "fetch" \/ outcomes # <<>>

\* C15: once a request makes its first transport call, every request
\* interceptor that was registered when the request was made has been called
\* exactly once, in insertion order, before any transport call, and no request
\* interceptor is called again when the request is retried.
C15_RegisteredRequestInterceptorsRunOnce ==
    TransportCalled =>
        /\ KindsOf(SelectSeq(invoked, IsRequestStage)) = registered.request
        /\ \A i \in 1..Len(invoked) : IsRequestStage(invoked[i]) => invoked[i].calls = 0

\* the request has ended by throwing the error of its last transport call
ThrewTransportError ==
    /\ pc = "done" /\ thrown # NoError
    /\ outcomes # <<>> /\ outcomes[Len(outcomes)].kind \notin {"ok", "http"}

\* C16: a response interceptor is called only after a transport call of the
\* request has resolved, the response interceptors of one attempt are called in
\* insertion order, and a request that ends by throwing a transport error has
\* called no response interceptor.
C16_ResponseInterceptorsOnlyOnSuccess ==
    /\ \A i \in 1..Len(invoked) :
          IsResponseStage(invoked[i]) =>
              /\ invoked[i].calls >= 1
              /\ outcomes[invoked[i].calls].kind \in {"ok", "http"}
    /\ ThrewTransportError => SelectSeq(invoked, IsResponseStage) = <<>>

ErrorTypes == {"network", "timeout", "abort", "parse"}

\* C17: whenever a request rejects, whichever stage failed, the rejection value
\* is a classified error object: a plain object with a message and a type among
\* network, timeout, abort and parse.
C17_RejectionsAreClassified ==
    (pc = "done" /\ thrown # NoError) =>
        /\ ~thrown.isError
        /\ thrown.message # ""
        /\ thrown.type \in ErrorTypes

(***************************************************************************)
(* Claims about chain depth and client members, checked under SpecInvoke.  *)
(***************************************************************************)
\* C18: chains have unlimited depth: reading a valid name on an action
\* handler or on any handler below it, with or without an id after the
\* controller, gives a callable handler bound to the path of the whole chain.
C18_UnlimitedDepth ==
    (/\ last.op = "get"
     /\ isValidAction(last.name)
     /\ \A h \in last.on : h.kind \in {"action", "paramAction", "sub"}) =>
        \E h \in last.result : h.endpoint = ChainPath(chain)

\* the caller has evaluated client.c(id).get() with no argument
InvokedParameterizedGet ==
    /\ last.op = "invoke"
    /\ config.live
    /\ Len(chain) = 3
    /\ chain[1].step = "name"
    /\ chain[2].step = "call" /\ chain[2].text # <<>>
    /\ chain[3] = Name(<<"g", "e", "t">>)
    /\ last.payload = Absent

\* C19: client.c(id).get() issues one GET request to the bare resource path
\* /c/id.
C19_ParameterizedGetIsBarePath ==
    InvokedParameterizedGet =>
        /\ Cardinality(last.req) = 1
        /\ \A r \in last.req : r.method = GET /\ r.url = ChainPath(SubSeq(chain, 1, 2))

\* the members the specification lists
ListedMembers ==
    { <<"g", "e", "t">>, <<"p", "o", "s", "t">>, <<"p", "u", "t">>, <<"d", "e", "l", "e", "t", "e">>, <<"p", "a", "t", "c", "h">>, <<"c", "a", "c", "h", "e">>, <<"i", "n", "t", "e", "r", "c", "e", "p", "t", "o", "r", "s">>, <<"d", "e", "s", "t", "r", "o", "y">> }

\* the last read on the client returned a member: no route handle for the name
\* exists, and the cache statistics are what they were
ReturnedMember ==
    /\ last.member /\ last.result = {}
    /\ last.name \notin DOMAIN routeCache
    /\ \A h \in handles : ~(h.kind = "route" /\ h.controller = last.name)
    /\ getStats = last.before

\* the last read on the client was handed to the route engine: it returned the
\* cached controller handle of that name
Delegated ==
    /\ ~last.member
    /\ last.name \in DOMAIN routeCache
    /\ last.result = {routeCache[last.name]}
    /\ \A h \in last.result : h.kind = "route" /\ h.controller = last.name

\* C20 as the specification states it: reading get, post, put, delete, patch,
\* cache, interceptors or destroy on the client returns the member, creates no
\* route handle and leaves the cache statistics unchanged; every other name is
\* delegated to the route engine.
C20_OnlyListedMembersAreKept ==
    last.op = "clientGet" =>
        IF last.name \in ListedMembers THEN ReturnedMember ELSE Delegated

\* C20, amended: reading any name that is in the client object (its public
\* members, its protected and private ones such as config and request, and
\* those inherited from Object.prototype) returns the member, creates no route
\* handle and leaves the cache statistics unchanged; every name that is not in
\* the object is delegated to the route engine.
C20_MembersAreNotDelegated ==
    last.op = "clientGet" =>
        IF last.name \in ClientMembers THEN ReturnedMember ELSE Delegated

C20_Witness ==
    /\ last.op = "clientGet" /\ last.name = <<"g", "e", "t">> /\ last.member
    /\ last.before.routes = 1 /\ getStats.routes = 1

(***************************************************************************)
(* Claims about the route cache, checked under Spec.                       *)
(***************************************************************************)
\* the controller handles made since the last clear
RoutesSinceClear == {h \in handles : h.kind = "route" /\ h.epoch = epoch}

\* C21: between two clears every access client.c for one controller name
\* returns the same handle, the one the route cache holds for c, and the
\* `routes` counter is the number of distinct controller names accessed since
\* the last clear.
C21_SameControllerSameHandle ==
    /\ \A h1, h2 \in RoutesSinceClear : h1.controller = h2.controller => h1 = h2
    /\ getStats.routes = Cardinality({h.controller : h \in RoutesSinceClear})
    /\ (last.op = "clientGet" /\ ~last.member) =>
          /\ last.name \in DOMAIN routeCache
          /\ last.result = {routeCache[last.name]}
          /\ getStats.routes \in {last.before.routes, last.before.routes + 1}

C21_Witness ==
    /\ last.op = "clientGet" /\ ~last.member
    /\ epoch = 1
    /\ last.before.routes = 2 /\ getStats.routes = 2
    /\ last.result = {routeCache[last.name]}

\* C22: the handle client.c(id) returns is bound to /c/id for exactly that
\* controller and id, whatever was resolved before: two different
\* (controller, id) pairs never share a cache entry.
C22_ParameterizedHandleIsItsOwn ==
    (last.op = "call" /\ last.id # NoId) =>
        \A h \in last.on : \A r \in last.result :
            /\ r.kind = "param"
            /\ r.controller = h.controller
            /\ r.endpoint = <<"/">> \o h.controller \o <<"/">> \o String(last.id)

\* the parameterized handles made since the last clear that are bound to
\* endpoint
BoundTo(endpoint) ==
    {p \in handles : p.kind = "param" /\ p.epoch = epoch /\ p.endpoint = endpoint}

\* C23: between two clears, client.c(id) returns the handle an earlier
\* client.c(id') returned iff id and id' are equal as strings; an id not yet
\* resolved for c adds one entry to the parameterized cache and a new handle,
\* and no existing handle changes.
C23_NewIdNewEntry ==
    [][ (last'.op = "call" /\ last'.id # NoId /\ last' # last) =>
          \A h \in last'.on :
             LET endpoint == <<"/">> \o h.controller \o <<"/">> \o String(last'.id)
             IN  /\ handles \subseteq handles'
                 /\ BoundTo(endpoint) # {} =>
                       /\ last'.result = BoundTo(endpoint)
                       /\ parameterizedCache' = parameterizedCache
                 /\ BoundTo(endpoint) = {} =>
                       /\ last'.result \cap handles = {}
                       /\ Cardinality(DOMAIN parameterizedCache')
                             = Cardinality(DOMAIN parameterizedCache) + 1 ]_vars

(***************************************************************************)
(* Claims about handler invocation, checked under SpecInvoke.              *)
(***************************************************************************)
HandlerKinds == {"action", "sub", "param", "paramAction"}

TransportResolved(outcome) == outcome.kind \in {"ok", "http"}

\* C26: within one request a second or later transport call is made only when
\* the transport call before it itself failed; a failure that arises after a
\* transport call resolved, such as a response interceptor that throws, never
\* leads to another transport call.
C26_RetryOnlyAfterTransportFailure ==
    /\ \A i \in 1..(Len(outcomes) - 1) : ~TransportResolved(outcomes[i])
    /\ (pc = "fetch" /\ outcomes # <<>>) => ~TransportResolved(outcomes[Len(outcomes)])

\* C27: a request interceptor that returns a config without some field leaves
\* that field as it was: with interceptors that return the config they were
\* given or only the headers they set, the request keeps the method, url, body
\* and query it was made with.
C27_OmittedFieldsKept ==
    (pc # "idle" /\ ~mergeConfigThrows(requested, config)) =>
        LET base == mergeConfig(requested, config)
        IN  /\ finalConfig.method = base.method
            /\ finalConfig.url = base.url
            /\ finalConfig.data = base.data
            /\ finalConfig.params = base.params

\* the response interceptors called after the request's latest transport call
LatestResponseStage(log) ==
    SelectSeq(SelectSeq(log, IsResponseStage), LAMBDA i : i.calls = Len(outcomes))

\* C28: the interceptors applied to a request are those registered when
\* request() was called, whatever the caller adds or clears while the request
\* is in flight: once the transport is called the request interceptors called
\* are the registered ones, and a request that returns a response has passed
\* it through the registered response interceptors.
C28_InterceptorsSnapshotted ==
    /\ TransportCalled =>
          Len(SelectSeq(invoked, IsRequestStage)) = Len(registered.request)
    /\ (pc = "done" /\ thrown = NoError) =>
          KindsOf(LatestResponseStage(invoked)) = registered.response

\* C29: a request that ends by throwing throws the classification of its last
\* attempt's failure: the type is the one given to that failure when it was
\* first classified (abort for an AbortError, network for a network failure)
\* and the original error's name is carried unchanged.
C29_ThrownIsFirstClassification ==
    ThrewTransportError =>
        \A error \in FetchErrors(finalConfig) :
            error.cause = outcomes[Len(outcomes)].kind =>
                /\ thrown.type = createClientError(error).type
                /\ thrown.originalName = error.name

\* C30: an attempt ended by the timeout guard is classified as a timeout: a
\* request whose last attempt timed out throws an error of type timeout, and it
\* does so only when no attempt remains.
C30_TimeoutIsClassifiedAndRetried ==
    (ThrewTransportError /\ outcomes[Len(outcomes)].kind = "timeout") =>
        /\ thrown.type = "timeout"
        /\ attempt >= maxAttempts

C32_BackoffWithinBounds ==
    \A k \in 1..Len(delays) :
        LET exponentialDelay == finalConfig.retryDelay.v * 2 ^ (k - 1)
        IN  /\ delays[k] >= (IF exponentialDelay < MAX_DELAY THEN exponentialDelay ELSE MAX_DELAY)
            /\ 10 * delays[k] <= (IF 11 * exponentialDelay < 10 * MAX_DELAY
                                  THEN 11 * exponentialDelay ELSE 10 * MAX_DELAY)
            /\ delays[k] <= MAX_DELAY
            /\ k > 1 => (IF exponentialDelay < MAX_DELAY THEN exponentialDelay ELSE MAX_DELAY)
                            >= (IF exponentialDelay \div 2 < MAX_DELAY
                                THEN exponentialDelay \div 2 ELSE MAX_DELAY)

\* C32 witness: a second retry whose delay is capped after a first with jitter
C32_Witness ==
    /\ Len(delays) >= 2
    /\ delays[1] > finalConfig.retryDelay.v
    /\ delays[2] = MAX_DELAY

(***************************************************************************)
(* Claims about the resolver's edge cases, checked under SpecResolver      *)
(***************************************************************************)

\* C33: an empty or whitespace-only action name with no explicit method gets
\* the default method, whatever the methodRules mapping
C33_BlankNameGetsDefault ==
    (/\ rResult # Undefined
     /\ rAction \in {<<>>, <<" ">>}
     /\ ~Truthy(rExplicit))
        => rResult = (IF Truthy(rOptions.defaultMethod) THEN rOptions.defaultMethod ELSE POST)

\* C34: the method returned is always one of the uppercase GET, POST, PUT,
\* DELETE, PATCH
C34_ResultIsUppercaseMethod ==
    rResult # Undefined => rResult \in HTTPMethods

(***************************************************************************)
(* Claims about the interceptor registry, checked under SpecRegistry       *)
(***************************************************************************)
Range(seq) == {seq[i] : i \in 1..Len(seq)}

\* what a step removeRequestInterceptor(id) must do: return whether an entry
\* had the id, delete one entry with that id and nothing else
RemovedFromRequest(id) ==
    /\ removal' = Removal("request", id, id \in Range(requestIds))
    /\ IF id \in Range(requestIds)
       THEN \E i \in 1..Len(requestIds) :
               /\ requestIds[i] = id
               /\ requestIds' = RemoveAt(requestIds, i)
               /\ requestInterceptors' = RemoveAt(requestInterceptors, i)
       ELSE UNCHANGED <<requestIds, requestInterceptors>>
    /\ UNCHANGED <<responseIds, responseInterceptors>>

RemovedFromResponse(id) ==
    /\ removal' = Removal("response", id, id \in Range(responseIds))
    /\ IF id \in Range(responseIds)
       THEN \E i \in 1..Len(responseIds) :
               /\ responseIds[i] = id
               /\ responseIds' = RemoveAt(responseIds, i)
               /\ responseInterceptors' = RemoveAt(responseInterceptors, i)
       ELSE UNCHANGED <<responseIds, responseInterceptors>>
    /\ UNCHANGED <<requestIds, requestInterceptors>>

\* the interceptors a finished request has called are the entries its
\* collections held when it was made, in order
RunsTheCollection ==
    /\ KindsOf(SelectSeq(invoked, IsRequestStage)) = registered.request
    /\ KindsOf(SelectSeq(invoked, IsResponseStage)) = registered.response

C36_IdsAreUnique ==
    /\ \A i, j \in 1..Len(requestIds) : requestIds[i] = requestIds[j] => i = j
    /\ \A i, j \in 1..Len(responseIds) : responseIds[i] = responseIds[j] => i = j

(***************************************************************************)
(* Claims about teardown, checked under SpecTeardown                       *)
(***************************************************************************)

\* C37: right after destroy() the three cache tables are empty and both
\* interceptor collections are empty
C37_DestroyEmptiesEverything ==
    [][(last'.op = "destroy" /\ epoch' = epoch + 1)
          => /\ getStats' = [routes |-> 0, actions |-> 0, parameterized |-> 0]
             /\ requestInterceptors' = <<>>
             /\ responseInterceptors' = <<>>]_vars

\* C37 witness: destroy() has just run on a client that had entries in the
\* three tables and interceptors of both stages
C37_Witness ==
    /\ last.op = "destroy"
    /\ last.before.routes > 0 /\ last.before.actions > 0 /\ last.before.parameterized > 0
    /\ last.registeredBefore = 2
    /\ requestInterceptors = <<>>
    /\ responseInterceptors = <<>>

(***************************************************************************)
(* Claims about response normalization, checked under SpecInterceptors     *)
(***************************************************************************)
LastOutcome == outcomes[Len(outcomes)]

\* the transport response behind the last outcome
LastTransportResponse ==
    CHOOSE r \in ParsedResponses : r.status = LastOutcome.status /\ r.body = LastOutcome.body

\* what the spec says of a transport response: a body with a success field
\* unchanged; a body that cannot be parsed a failure with the status and the
\* fixed message; any other body judged by the status
Normalized(r) ==
    IF r.body = "envelope" THEN APIResponse(TRUE, TRUE, 0, "")
    ELSE IF r.body = "invalid"
    THEN APIResponse(FALSE, FALSE, r.status, "Failed to parse response")
    ELSE IF r.ok THEN APIResponse(TRUE, TRUE, 0, "")
    ELSE APIResponse(FALSE, FALSE, r.status, r.statusText)

\* C38: the response of a request is the normalization of what the transport
\* resolved with, and an unparseable body is returned after that one
\* transport call, the only one the transport answered
C38_ResponseIsNormalized ==
    /\ (pc = "responseInterceptors" \/ returned # NoResponse)
          => finalResponse = Normalized(LastTransportResponse)
    /\ (returned # NoResponse /\ returned.message = "Failed to parse response")
          => Len(SelectSeq(outcomes, TransportResolved)) = 1

(***************************************************************************)
(* Claims about the cache tables across a clear, checked under Spec        *)
(***************************************************************************)

\* C39: every entry of the action table and of the parameterized table
\* belongs to a controller that has an entry in the route table
C39_EntriesBelongToCachedControllers ==
    /\ \A k \in DOMAIN actionCache : actionCache[k].controller \in DOMAIN routeCache
    /\ \A k \in DOMAIN parameterizedCache :
          parameterizedCache[k].controller \in DOMAIN routeCache
    /\ getStats.routes = 0 => (getStats.actions = 0 /\ getStats.parameterized = 0)

(***************************************************************************)
(* Claims about termination, checked under SpecPipelineFair                *)
(***************************************************************************)

\* the retries the caller configured: on the request, else on the client,
\* else the default
ConfiguredRetries ==
    IF requested.retries.def THEN requested.retries.v
    ELSE IF apiConfig.retries.def THEN apiConfig.retries.v
    ELSE DEFAULT_RETRIES

AtLeastZero(n) == IF n < 0 THEN 0 ELSE n

\* C40: a request ends after at most retries + 1 transport attempts and at
\* most retries delays, with no timeout timer left, and it does end
C40_RequestTerminates ==
    /\ [](pc # "idle" => /\ Len(outcomes) <= AtLeastZero(ConfiguredRetries + 1)
                         /\ Len(delays) <= AtLeastZero(ConfiguredRetries))
    /\ [](pc = "done" => timeouts = 0)
    /\ (pc # "idle") ~> (pc = "done")

====
